---- MODULE Spec2Model ----
(***************************************************************************)
(* The reference-gallery manager of WebDangThanh: the SettingsTab          *)
(* workflows (upload, delete image, delete album, rename album, add album) *)
(* over the githubService client, run by browser sessions against one      *)
(* remote repository that holds manifest.json and the image blobs.         *)
(*                                                                         *)
(* Strings are sequences of one-character strings, so that slugify and     *)
(* getFileNameParts are computed as the code computes them.  A nullable    *)
(* value is <<>> (null) or <<v>>.  A JavaScript object with string keys is *)
(* a sequence of [name, images] entries in insertion order, which is the   *)
(* order JSON.stringify writes them in.                                    *)
(***************************************************************************)
EXTENDS Integers, Sequences, FiniteSets, TLC

\* ---------------------------------------------------------------- bounds
MaxOps == 4
MaxClock == 1
MaxBatch == 2
MaxFail == 1

\* ------------------------------------------------------------- characters
Space == " "
Dash == "-"

ToLower(c) == CASE c = "A" -> "a" [] c = "P" -> "p" [] OTHER -> c

\* NFD decomposition followed by the removal of the combining marks
StripMark(c) == IF c = "é" THEN "e" ELSE c

\* \w of a JavaScript regular expression: [A-Za-z0-9_]
IsWord(c) == c \in {"a", "b", "e", "j", "l", "m", "n", "o", "p", "r", "A", "P", "0", "1", "_"}

RECURSIVE MapChars(_, _)
MapChars(s, stage) ==
    IF s = <<>> THEN <<>>
    ELSE <<IF stage = "nfd" THEN StripMark(Head(s)) ELSE ToLower(Head(s))>>
             \o MapChars(Tail(s), stage)

RECURSIVE TrimLeft(_)
TrimLeft(s) == IF s # <<>> /\ Head(s) = Space THEN TrimLeft(Tail(s)) ELSE s

RECURSIVE TrimRight(_)
TrimRight(s) ==
    IF s # <<>> /\ s[Len(s)] = Space THEN TrimRight(SubSeq(s, 1, Len(s) - 1)) ELSE s

Trim(s) == TrimRight(TrimLeft(s))

\* replace(/\s+/g, '-'): every run of white space becomes one dash
RECURSIVE SpacesToDash(_)
SpacesToDash(s) ==
    IF s = <<>> THEN <<>>
    ELSE IF Head(s) = Space THEN <<Dash>> \o SpacesToDash(TrimLeft(s))
    ELSE <<Head(s)>> \o SpacesToDash(Tail(s))

\* replace(/[^\w-]+/g, ''): every character that is neither \w nor a dash goes
RECURSIVE DropNonWord(_)
DropNonWord(s) ==
    IF s = <<>> THEN <<>>
    ELSE IF IsWord(Head(s)) \/ Head(s) = Dash THEN <<Head(s)>> \o DropNonWord(Tail(s))
    ELSE DropNonWord(Tail(s))

\* replace(/--+/g, '-'): every run of two or more dashes becomes one dash
RECURSIVE CollapseDashes(_)
CollapseDashes(s) ==
    IF Len(s) < 2 THEN s
    ELSE IF Head(s) = Dash /\ s[2] = Dash THEN CollapseDashes(Tail(s))
    ELSE <<Head(s)>> \o CollapseDashes(Tail(s))

\* slugify of part_003, stage by stage; each stage is computed once
slugify(text) ==
    IF text = <<>> THEN <<>>
    ELSE CHOOSE out \in
             {CollapseDashes(d) : d \in
                 {DropNonWord(c) : c \in
                     {SpacesToDash(b) : b \in
                         {Trim(a) : a \in
                             {MapChars(m, "lower") : m \in {MapChars(text, "nfd")}}}}}} : TRUE

\* fileName.lastIndexOf('.'), 1-based; 0 when there is no dot
RECURSIVE LastDot(_)
LastDot(s) ==
    IF s = <<>> THEN 0
    ELSE IF s[Len(s)] = "." THEN Len(s)
    ELSE LastDot(SubSeq(s, 1, Len(s) - 1))

getFileNameParts(fileName) ==
    LET lastDot == LastDot(fileName)
    IN  IF lastDot = 0 \/ lastDot = 1
        THEN [name |-> fileName, extension |-> <<>>]
        ELSE [name |-> SubSeq(fileName, 1, lastDot - 1),
              extension |-> SubSeq(fileName, lastDot + 1, Len(fileName))]

\* ------------------------------------------------------------ data model
Normal == <<"n", "o", "r", "m", "a", "l">>

AlbumA == <<"a">>

\* `${albumName}/${slugify(albumName)}_${ts}_${slugify(originalName)}.${extension}`
MkPath(dir, pre, ts, name, ext) ==
    [dir |-> dir, pre |-> pre, ts |-> ts, name |-> name, ext |-> ext]

NoPath == MkPath(<<>>, <<>>, 0, <<>>, <<>>)

\* GithubManifestItem
MkItem(path, createdAt) == [path |-> path, createdAt |-> createdAt]

\* GithubManifest.albums: the entries of the object in insertion order
HasAlbum(albums, k) == \E i \in 1..Len(albums) : albums[i].name = k

AlbumIndex(albums, k) == CHOOSE i \in 1..Len(albums) : albums[i].name = k

\* albums[k]; callers test HasAlbum first where the code tests for undefined
GetAlbum(albums, k) == albums[AlbumIndex(albums, k)].images

\* albums[k] || []
GetAlbumOrEmpty(albums, k) == IF HasAlbum(albums, k) THEN GetAlbum(albums, k) ELSE <<>>

\* albums[k] = v: an existing key keeps its place, a new key goes last
PutAlbum(albums, k, v) ==
    IF HasAlbum(albums, k)
    THEN [albums EXCEPT ![AlbumIndex(albums, k)].images = v]
    ELSE Append(albums, [name |-> k, images |-> v])

\* delete albums[k]
DelAlbum(albums, k) == SelectSeq(albums, LAMBDA e : e.name # k)

AlbumKeys(albums) == {albums[i].name : i \in 1..Len(albums)}

\* every path recorded in an albums object
AlbumPaths(albums) ==
    UNION {{albums[i].images[j].path : j \in 1..Len(albums[i].images)} : i \in 1..Len(albums)}

\* const defaultManifest: GithubManifest = { albums: { normal: [] } }
defaultManifest == <<[name |-> Normal, images |-> <<>>]>>

\* the JSON document a manifest.json file holds
AlbumsDoc(albums) == [kind |-> "albums", albums |-> albums, images |-> <<>>]

LegacyDoc(images) == [kind |-> "legacy", albums |-> <<>>, images |-> images]

\* a JSON document with no images list and no albums value, such as {}
OtherDoc == [kind |-> "other", albums |-> <<>>, images |-> <<>>]

\* a file whose content atob or JSON.parse throws on
GarbageDoc == [kind |-> "garbage", albums |-> <<>>, images |-> <<>>]

\* an element of an album's list that is not a record { path, createdAt }: it has
\* no path
BadItem == MkItem(NoPath, 0)

\* a document whose albums value is set but is not a mapping from album names to
\* lists of records, such as { "albums": { "normal": [ {} ] } }
MalformedDoc == AlbumsDoc(<<[name |-> Normal, images |-> <<BadItem>>]>>)

\* the library a session may find when it opens: album a holds two images
SeedA0 == MkItem(MkPath(AlbumA, AlbumA, 0, <<"b">>, <<"j">>), 0)

SeedA1 == MkItem(MkPath(AlbumA, AlbumA, 1, <<"b">>, <<"j">>), 0)

SeedAlbums ==
    <<[name |-> Normal, images |-> <<>>], [name |-> AlbumA, images |-> <<SeedA0, SeedA1>>]>>

\* const IMAGES_PER_PAGE = 20
IMAGES_PER_PAGE == 20

\* the lengths of an album's list that the gallery is shown: none, one page
\* exactly, two pages, three pages
PageCounts == {0, 20, 21, 41}

\* the manifest prop of GalleryManager, as far as paging goes: null (<<>>), or the
\* album names in sorted order, each with the length of its list
GalleryProps ==
    {<<>>}
    \cup {<<[name |-> Normal, n |-> c]>> : c \in PageCounts}
    \cup {<<[name |-> AlbumA, n |-> c], [name |-> Normal, n |-> d]>> :
             c \in PageCounts, d \in PageCounts}

\* GalleryManager after its first render, manifest still null: useState(null),
\* useState(1), and the effect of that render due
GalleryMounted ==
    [albums |-> <<>>, selectedAlbum |-> <<>>, currentPage |-> 1, effect |-> TRUE,
     why |-> "mount"]

\* ------------------------------------------------------------------ state
\* the browser sessions; each runs one handler invocation at a time
Sessions == {"s1", "s2"}

\* what the user types as an album name
RawNames == {<<>>, <<"A">>, <<"é", " ">>, <<"!", " ">>, Normal}

\* the File.name of the files the user drops
FileNames == {<<"P", ".", "j">>}

Batches == UNION {[1..n -> FileNames] : n \in 1..MaxBatch}

VARIABLES
    remoteManifest,  \* manifest.json in the repository: <<>> (absent) or <<doc>>
    blobs,           \* the paths of the image files in the repository
    clock,           \* Date.now() as last read by a handler
    manifest,        \* SettingsTab state `manifest` of a session: <<>> (null) or <<albums>>
    isProcessing,    \* SettingsTab state `isProcessing` of a session
    error,           \* SettingsTab state `error` of a session
    status,          \* UploadPanel state `status` of a session
    wf,              \* the local variables of the session's handler invocation
    hist,            \* what that invocation has done so far (history)
    basis,           \* the remote file a session's `manifest` was last taken from (history)
    ops,             \* the share of MaxOps the handler invocations started have taken
    fails,           \* network failures injected
    bg,              \* a handleAddAlbum invocation of a session that awaits its write of
                     \* manifest.json beside the handler in wf: <<>> or <<its variables>>
    gallery          \* the GalleryManager component: its manifest prop and its state

vars == <<remoteManifest, blobs, clock, manifest, isProcessing, error, status,
          wf, hist, basis, ops, fails, bg, gallery>>

IdleWf ==
    [kind |-> "none", pc |-> "idle", album |-> <<>>, newSlug |-> <<>>, files |-> <<>>,
     idx |-> 0, images |-> <<>>, entries |-> <<>>, cur |-> <<>>, nextPath |-> NoPath,
     newM |-> <<>>, content |-> <<>>, sha |-> <<>>]

NoHist ==
    [kind |-> "none", outcome |-> "none", n |-> 0, op |-> "none", onManifest |-> FALSE,
     res |-> "none", tag |-> <<>>, failed |-> FALSE, mwrites |-> 0, changed |-> FALSE,
     basis |-> <<>>, trip |-> <<>>]

StartHist(kind, b) == [NoHist EXCEPT !.kind = kind, !.outcome = "running", !.basis = b]

\* what is kept of an invocation once it has ended: its outcome and its last call
EndHist(h, outcome) ==
    [NoHist EXCEPT !.kind = h.kind, !.outcome = outcome, !.op = h.op,
                   !.onManifest = h.onManifest, !.res = h.res, !.tag = h.tag]

\* one more remote call made by the invocation
Called(h, op, onManifest, res, tag) ==
    [h EXCEPT !.n = @ + 1, !.op = op, !.onManifest = onManifest, !.res = res, !.tag = tag,
              !.failed = @ \/ res \in {"conflict", "transient"},
              !.mwrites = @ + (IF onManifest /\ op \in {"updateFile", "uploadFile"} THEN 1 ELSE 0)]

\* the outcomes of the network for one request
Net == IF fails < MaxFail THEN {"ok", "transient"} ELSE {"ok"}

Failed(net) == fails' = fails + (IF net = "transient" THEN 1 ELSE 0)

\* the share of MaxOps a handler invocation takes: one that moves image files
\* counts twice
Cost(kind) == IF kind = "addAlbum" THEN 1 ELSE 2

CanStart(s, kind) == wf[s].pc = "idle" /\ manifest[s] # <<>> /\ ops + Cost(kind) <= MaxOps

\* the kinds whose newManifest is { ...manifest }: it shares manifest.albums
ByRef(kind) == kind \in {"deleteImage", "deleteAlbum", "rename", "addAlbum"}

Init ==
    /\ \/ remoteManifest = <<>> /\ blobs = {}
       \/ /\ remoteManifest = <<AlbumsDoc(SeedAlbums)>>
          /\ blobs = AlbumPaths(SeedAlbums)
    /\ clock = 0
    /\ manifest = [s \in Sessions |-> <<>>]
    /\ isProcessing = [s \in Sessions |-> FALSE]
    /\ error = [s \in Sessions |-> "none"]
    /\ status = [s \in Sessions |-> "idle"]
    /\ wf = [s \in Sessions |-> IdleWf]
    /\ hist = [s \in Sessions |-> NoHist]
    /\ basis = [s \in Sessions |-> <<>>]
    /\ ops = 0
    /\ fails = 0
    /\ bg = [s \in Sessions |-> <<>>]
    /\ gallery = GalleryMounted

\* the images list of a manifest.json of the old format
LegacyImages ==
    <<MkItem(MkPath(Normal, Normal, 0, <<"b">>, <<"j">>), 0),
      MkItem(MkPath(Normal, Normal, 1, <<"b">>, <<"j">>), 0)>>

\* what a handleUploadComplete of two files for 'normal' has recorded at clock
\* reading 0, followed by a handleDeleteImage of the second whose commit failed: the
\* second record names a blob that is gone
DanglingAlbums ==
    <<[name |-> Normal,
       images |-> <<MkItem(MkPath(Normal, Normal, 0, <<"p">>, <<"j">>), 0),
                    MkItem(MkPath(Normal, Normal, 1, <<"p">>, <<"j">>), 0)>>]>>

\* the states earlier use may have left the repository in when a session opens
Repositories ==
    {[file |-> <<>>, blobs |-> {}],
     [file |-> <<AlbumsDoc(SeedAlbums)>>, blobs |-> AlbumPaths(SeedAlbums)],
     [file |-> <<LegacyDoc(LegacyImages)>>, blobs |-> {LegacyImages[i].path : i \in 1..Len(LegacyImages)}],
     [file |-> <<LegacyDoc(<<>>)>>, blobs |-> {}],
     [file |-> <<OtherDoc>>, blobs |-> {}],
     [file |-> <<GarbageDoc>>, blobs |-> {}],
     [file |-> <<MalformedDoc>>, blobs |-> {}],
     [file |-> <<AlbumsDoc(DanglingAlbums)>>, blobs |-> {DanglingAlbums[1].images[1].path}]}

RepoInit ==
    /\ \E r \in Repositories : remoteManifest = r.file /\ blobs = r.blobs
    /\ clock = 0
    /\ manifest = [s \in Sessions |-> <<>>]
    /\ isProcessing = [s \in Sessions |-> FALSE]
    /\ error = [s \in Sessions |-> "none"]
    /\ status = [s \in Sessions |-> "idle"]
    /\ wf = [s \in Sessions |-> IdleWf]
    /\ hist = [s \in Sessions |-> NoHist]
    /\ basis = [s \in Sessions |-> <<>>]
    /\ ops = 0
    /\ fails = 0
    /\ bg = [s \in Sessions |-> <<>>]
    /\ gallery = GalleryMounted

\* ------------------------------------------------------- githubService.ts
\* a variant of getManifest that returns an albums object without 'normal' when
\* there is no manifest.json
getManifestEmptyWhenAbsent(file, net) ==
    IF net # "ok" THEN defaultManifest
    ELSE IF file = <<>> THEN <<>>
    ELSE IF file[1].kind = "legacy" THEN <<[name |-> Normal, images |-> file[1].images]>>
    ELSE IF file[1].kind = "albums" THEN file[1].albums
    ELSE defaultManifest

\* a variant of getManifest without the migration of the old format
getManifestNoMigration(file, net) ==
    IF net # "ok" THEN defaultManifest
    ELSE IF file = <<>> THEN defaultManifest
    ELSE IF file[1].kind = "albums" THEN file[1].albums
    ELSE defaultManifest

\* getManifest: what it returns for the file it finds, or for a failed request
getManifest(file, net) ==
    IF net # "ok" THEN defaultManifest
    ELSE IF file = <<>> THEN defaultManifest
    ELSE IF file[1].kind = "legacy" THEN <<[name |-> Normal, images |-> file[1].images]>>
    ELSE IF file[1].kind = "albums" THEN file[1].albums
    ELSE defaultManifest

\* makeRequest on a read: 404 gives null, another failure throws
ReadRes(present, net) == IF net # "ok" THEN net ELSE IF present THEN "ok" ELSE "notfound"

\* a variant of CreateRes in which every create that is not applied is answered
\* as a missing resource, which makeRequest returns as null
CreateResAsMissing(present, net) == IF net # "ok" \/ present THEN "notfound" ELSE "ok"

\* uploadFile (PUT without sha): the store refuses a path that exists
CreateRes(present, net) == IF net # "ok" THEN net ELSE IF present THEN "conflict" ELSE "ok"

\* a variant of UpdateRes in which the store does not compare the sha
UpdateResAnySha(file, sha, net) == IF net # "ok" THEN net ELSE "ok"

\* updateFile (PUT with sha): the store refuses a sha that is not the file's
UpdateRes(file, sha, net) == IF net # "ok" THEN net ELSE IF file = sha THEN "ok" ELSE "conflict"

\* deleteFile (DELETE with sha): 404 for a path that is gone
DeleteRes(present, net) == IF net # "ok" THEN net ELSE IF present THEN "ok" ELSE "notfound"

\* a variant of Throws in which makeRequest returns null for every failure
ThrowsNever(res) == FALSE

\* makeRequest: does the call throw?  A 404 returns null, also on a write
Throws(res) == res \in {"conflict", "transient"}

ErrorKind(res) == IF res = "conflict" THEN "Conflict" ELSE "Transient"

\* ---------------------------------------------------------- SettingsTab
\* fetchManifestData, run once when the tab mounts
fetchManifestData(s, net) ==
    /\ manifest[s] = <<>>
    /\ manifest' = [manifest EXCEPT ![s] = <<getManifest(remoteManifest, net)>>]
    /\ basis' = [basis EXCEPT ![s] = <<remoteManifest>>]
    /\ Failed(net)
    /\ UNCHANGED <<remoteManifest, blobs, clock, isProcessing, error, status, wf, hist, ops>>
    /\ UNCHANGED <<bg, gallery>>

\* processFiles: the status it shows once onUpload has settled
processFilesStatus(thrown) == IF thrown THEN "error" ELSE "success"

\* handleUploadComplete: does an error caught in it reach the caller?
UploadRethrows == FALSE

\* a variant of AfterError whose catch block does not call setError
AfterErrorSilent(s, e) ==
    /\ error' = error
    /\ isProcessing' = IF wf[s].kind = "addAlbum" THEN isProcessing
                       ELSE [isProcessing EXCEPT ![s] = FALSE]
    /\ status' = IF wf[s].kind = "upload"
                 THEN [status EXCEPT ![s] = processFilesStatus(UploadRethrows)]
                 ELSE status

\* a variant of AfterError without the finally block
AfterErrorNoFinally(s, e) ==
    /\ error' = IF wf[s].kind = "addAlbum" THEN error ELSE [error EXCEPT ![s] = e]
    /\ isProcessing' = isProcessing
    /\ status' = IF wf[s].kind = "upload"
                 THEN [status EXCEPT ![s] = processFilesStatus(UploadRethrows)]
                 ELSE status

\* the catch and finally blocks of the handler; handleAddAlbum has neither
AfterError(s, e) ==
    LET k == wf[s].kind
    IN  /\ error' = IF k = "addAlbum" THEN error ELSE [error EXCEPT ![s] = e]
        /\ isProcessing' = IF k = "addAlbum" THEN isProcessing
                           ELSE [isProcessing EXCEPT ![s] = FALSE]
        /\ status' = IF k = "upload"
                     THEN [status EXCEPT ![s] = processFilesStatus(UploadRethrows)]
                     ELSE status

\* the handler ends with an error: h is its history including the last call
Fail(s, e, h) ==
    /\ wf' = [wf EXCEPT ![s] = IdleWf]
    /\ hist' = [hist EXCEPT ![s] = EndHist(h, e)]
    /\ AfterError(s, e)

\* a variant of PushOp that creates the file whatever the sha read
PushOpAlwaysCreate(sha) == "uploadFile"

\* updateAndPushManifest, lines 57-61: update with the sha read, create without one
PushOp(sha) == IF sha # <<>> THEN "updateFile" ELSE "uploadFile"

PushRes(file, sha, net) ==
    IF PushOp(sha) = "updateFile" THEN UpdateRes(file, sha, net)
    ELSE CreateRes(file # <<>>, net)

\* a variant of Written in which the store keeps the albums the body does not name
WrittenMerged(file, albums) ==
    IF file = <<>> THEN <<AlbumsDoc(albums)>>
    ELSE <<AlbumsDoc(albums \o SelectSeq(file[1].albums, LAMBDA e : ~HasAlbum(albums, e.name)))>>

\* the file the store holds after a PUT of manifest.json: the body replaces it whole
Written(file, albums) == <<AlbumsDoc(albums)>>

\* updateAndPushManifest, first await: getFileSha(githubToken, 'manifest.json');
\* JSON.stringify(newManifest) runs when it returns
CommitSha(s, net) ==
    /\ wf[s].pc = "cm_sha"
    /\ Failed(net)
    /\ LET res == ReadRes(remoteManifest # <<>>, net)
           h == [Called(hist[s], "getFileSha", TRUE, res, remoteManifest) EXCEPT !.changed = FALSE]
       IN  IF Throws(res)
           THEN /\ Fail(s, ErrorKind(res), h)
                /\ UNCHANGED <<remoteManifest, blobs, clock, manifest, basis, ops>>
           ELSE /\ wf' = [wf EXCEPT ![s].pc = "cm_put", ![s].sha = remoteManifest,
                                    ![s].content = IF ByRef(wf[s].kind) THEN manifest[s][1]
                                                   ELSE wf[s].newM]
                /\ hist' = [hist EXCEPT ![s] = h]
                /\ UNCHANGED <<remoteManifest, blobs, clock, manifest, isProcessing,
                               error, status, basis, ops>>
    /\ UNCHANGED <<bg, gallery>>

\* setManifest(newManifest) of handleUploadComplete puts a new albums object into
\* the session's state: a handleAddAlbum that runs beside it keeps the object it
\* began with, manifest.albums as it is now
KeepsOwnManifest(s) ==
    IF bg[s] # <<>> /\ bg[s][1].own = <<>> /\ ~ByRef(wf[s].kind)
    THEN <<[bg[s][1] EXCEPT !.own = manifest[s]]>>
    ELSE bg[s]

\* updateAndPushManifest, second await: updateFile or uploadFile of manifest.json,
\* then setManifest(newManifest); the handler's finally block follows
CommitPut(s, net) ==
    /\ wf[s].pc = "cm_put"
    /\ Failed(net)
    /\ LET res == PushRes(remoteManifest, wf[s].sha, net)
           h == Called(hist[s], PushOp(wf[s].sha), TRUE, res, wf[s].sha)
           written == Written(remoteManifest, wf[s].content)
       IN  IF Throws(res)
           THEN /\ Fail(s, ErrorKind(res), h)
                /\ UNCHANGED <<remoteManifest, blobs, clock, manifest, basis, ops, bg>>
           ELSE /\ remoteManifest' = IF res = "ok" THEN written ELSE remoteManifest
                /\ bg' = [bg EXCEPT ![s] = KeepsOwnManifest(s)]
                /\ manifest' = [manifest EXCEPT ![s] =
                                   IF ByRef(wf[s].kind) THEN manifest[s] ELSE <<wf[s].newM>>]
                /\ wf' = [wf EXCEPT ![s] = IdleWf]
                /\ hist' = [q \in Sessions |->
                               IF q = s THEN EndHist(h, "ok")
                               ELSE IF wf[q].pc = "cm_put" /\ written # remoteManifest
                                    THEN [hist[q] EXCEPT !.changed = TRUE]
                                    ELSE hist[q]]
                /\ basis' = [basis EXCEPT ![s] = <<written>>]
                /\ isProcessing' = IF wf[s].kind = "addAlbum" THEN isProcessing
                                   ELSE [isProcessing EXCEPT ![s] = FALSE]
                /\ status' = IF wf[s].kind = "upload"
                             THEN [status EXCEPT ![s] = processFilesStatus(FALSE)]
                             ELSE status
                /\ UNCHANGED <<blobs, clock, error, ops>>
    /\ UNCHANGED gallery

\* a variant of UploadPath that leaves the index out of the timestamp
UploadPathNoIndex(albumName, fileName, now, index) ==
    LET parts == getFileNameParts(fileName)
    IN  MkPath(albumName, slugify(albumName), now, slugify(parts.name), parts.extension)

\* the path handleUploadComplete gives the file at 0-based position index
UploadPath(albumName, fileName, now, index) ==
    LET parts == getFileNameParts(fileName)
    IN  MkPath(albumName, slugify(albumName), now + index, slugify(parts.name),
               parts.extension)

\* a variant of MergeEntries that records the first file of the batch only
MergeEntriesFirstOnly(cur, albumName, entries) ==
    IF HasAlbum(cur, albumName)
    THEN PutAlbum(cur, albumName, Append(GetAlbum(cur, albumName), entries[1]))
    ELSE PutAlbum(cur, albumName, <<entries[1]>>)

\* handleUploadComplete, lines 97-105: the new entries go into the fetched manifest
MergeEntries(cur, albumName, entries) ==
    IF HasAlbum(cur, albumName)
    THEN PutAlbum(cur, albumName, GetAlbum(cur, albumName) \o entries)
    ELSE PutAlbum(cur, albumName, entries)

\* processFiles calls onUpload: handleUploadComplete begins
StartUpload(s, albumName, files) ==
    /\ CanStart(s, "upload")
    /\ albumName \in AlbumKeys(manifest[s][1]) \cup {Normal}
    /\ ops' = ops + Cost("upload")
    /\ wf' = [wf EXCEPT ![s] = [IdleWf EXCEPT !.kind = "upload", !.pc = "up_get",
                                              !.album = albumName, !.files = files]]
    /\ hist' = [hist EXCEPT ![s] = StartHist("upload", <<>>)]
    /\ isProcessing' = [isProcessing EXCEPT ![s] = TRUE]
    /\ status' = [status EXCEPT ![s] = "processing"]
    /\ UNCHANGED <<remoteManifest, blobs, clock, manifest, error, basis, fails>>
    /\ UNCHANGED <<bg, gallery>>

\* handleUploadComplete: currentManifest = await getManifest(githubToken); when it
\* returns Date.now() reads now, and the first path is made
UploadGetManifest(s, net, now) ==
    /\ wf[s].pc = "up_get"
    /\ Failed(net)
    /\ clock' = now
    /\ wf' = [wf EXCEPT ![s].pc = "up_put", ![s].cur = getManifest(remoteManifest, net),
                        ![s].idx = 1,
                        ![s].nextPath = UploadPath(wf[s].album, wf[s].files[1], now, 0)]
    /\ hist' = [hist EXCEPT ![s] =
                   [Called(hist[s], "getManifest", TRUE, ReadRes(remoteManifest # <<>>, net), <<>>)
                       EXCEPT !.basis = <<remoteManifest>>]]
    /\ UNCHANGED <<remoteManifest, blobs, manifest, isProcessing, error, status,
                   basis, ops>>
    /\ UNCHANGED <<bg, gallery>>

\* handleUploadComplete: await uploadFile(githubToken, imagePath, contentBase64) for
\* the file at idx; when it returns the clock reads now: the entry is pushed, then
\* the next path is made, or the entries are merged after the last file
UploadFileStep(s, net, now) ==
    /\ wf[s].pc = "up_put"
    /\ Failed(net)
    /\ clock' = now
    /\ LET w == wf[s]
           res == CreateRes(w.nextPath \in blobs, net)
           h == Called(hist[s], "uploadFile", FALSE, res, <<>>)
           entries == Append(w.entries, MkItem(w.nextPath, now))
       IN  IF Throws(res)
           THEN /\ Fail(s, ErrorKind(res), h)
                /\ UNCHANGED <<remoteManifest, blobs, manifest, basis, ops>>
           ELSE /\ blobs' = IF res = "ok" THEN blobs \cup {w.nextPath} ELSE blobs
                /\ hist' = [hist EXCEPT ![s] = h]
                /\ wf' = [wf EXCEPT ![s] =
                             IF w.idx < Len(w.files)
                             THEN [w EXCEPT !.entries = entries, !.idx = w.idx + 1,
                                            !.nextPath = UploadPath(w.album, w.files[w.idx + 1],
                                                                    now, w.idx)]
                             ELSE [w EXCEPT !.entries = entries, !.pc = "cm_sha",
                                            !.newM = MergeEntries(w.cur, w.album, entries)]]
                /\ UNCHANGED <<remoteManifest, manifest, isProcessing, error, status,
                               basis, ops>>
    /\ UNCHANGED <<bg, gallery>>

\* the in-place change a handler makes to manifest.albums through its shallow copy
\* { ...manifest }, before updateAndPushManifest is called
MutateAlbums(s, albums) == manifest' = [manifest EXCEPT ![s] = <<albums>>]

\* a variant of FilterPath that compares the file names, not the whole paths
FilterPathByName(images, imagePath) ==
    SelectSeq(images, LAMBDA img : img.path.name # imagePath.name)

\* handleDeleteImage, line 128: filter(img => img.path !== imagePath)
FilterPath(images, imagePath) == SelectSeq(images, LAMBDA img : img.path # imagePath)

\* h is the history of a handleUploadComplete that has ended well, and albums, the
\* manifest it committed, is the manifest of the file it wrote over with exactly
\* one record, of imagePath, added at the end of the album albumName it had
AddedLast(h, albums, albumName, imagePath) ==
    /\ h.kind = "upload" /\ h.outcome = "ok"
    /\ LET old == getManifest(h.tag, "ok")
       IN  /\ HasAlbum(old, albumName) /\ HasAlbum(albums, albumName)
           /\ LET im == GetAlbum(albums, albumName)
              IN  /\ im # <<>>
                  /\ im[Len(im)].path = imagePath
                  /\ albums = PutAlbum(old, albumName,
                                       Append(GetAlbum(old, albumName), im[Len(im)]))

\* handleDeleteImage begins (the user confirmed)
StartDeleteImage(s, albumName, imagePath) ==
    /\ CanStart(s, "deleteImage")
    /\ albumName \in AlbumKeys(manifest[s][1])
    /\ imagePath \in AlbumPaths(<<[name |-> albumName,
                                   images |-> GetAlbum(manifest[s][1], albumName)]>>)
    /\ ops' = ops + Cost("deleteImage")
    /\ wf' = [wf EXCEPT ![s] = [IdleWf EXCEPT !.kind = "deleteImage", !.pc = "di_sha",
                                              !.album = albumName, !.nextPath = imagePath]]
    /\ hist' = [hist EXCEPT ![s] =
                   [StartHist("deleteImage", basis[s]) EXCEPT !.trip =
                       IF AddedLast(hist[s], manifest[s][1], albumName, imagePath)
                       THEN <<hist[s].tag>> ELSE <<>>]]
    /\ isProcessing' = [isProcessing EXCEPT ![s] = TRUE]
    /\ UNCHANGED <<remoteManifest, blobs, clock, manifest, error, status, basis, fails>>
    /\ UNCHANGED <<bg, gallery>>

\* a variant of MissingSha that goes on without a sha
MissingShaIgnored(res) == FALSE

\* handleDeleteImage, line 124: if (!sha) throw new Error("Could not find file to delete.")
MissingSha(res) == res = "notfound"

\* handleDeleteImage: sha = await getFileSha(githubToken, imagePath)
DeleteImageSha(s, net) ==
    /\ wf[s].pc = "di_sha"
    /\ Failed(net)
    /\ LET res == ReadRes(wf[s].nextPath \in blobs, net)
           h == Called(hist[s], "getFileSha", FALSE, res, <<>>)
       IN  IF Throws(res) \/ MissingSha(res)
           THEN /\ Fail(s, IF res = "notfound" THEN "NotFound" ELSE ErrorKind(res), h)
                /\ UNCHANGED <<remoteManifest, blobs, clock, manifest, basis, ops>>
           ELSE /\ wf' = [wf EXCEPT ![s].pc = "di_del"]
                /\ hist' = [hist EXCEPT ![s] = h]
                /\ UNCHANGED <<remoteManifest, blobs, clock, manifest, isProcessing,
                               error, status, basis, ops>>
    /\ UNCHANGED <<bg, gallery>>

\* handleDeleteImage: await deleteFile(githubToken, imagePath, sha), then the record
\* is filtered out of manifest.albums[albumName]
DeleteImageFile(s, net) ==
    /\ wf[s].pc = "di_del"
    /\ Failed(net)
    /\ LET w == wf[s]
           res == DeleteRes(w.nextPath \in blobs, net)
           h == Called(hist[s], "deleteFile", FALSE, res, <<>>)
           albums == manifest[s][1]
       IN  IF Throws(res)
           THEN /\ Fail(s, ErrorKind(res), h)
                /\ UNCHANGED <<remoteManifest, blobs, clock, manifest, basis, ops>>
           ELSE /\ blobs' = IF res = "ok" THEN blobs \ {w.nextPath} ELSE blobs
                /\ MutateAlbums(s, PutAlbum(albums, w.album,
                                            FilterPath(GetAlbum(albums, w.album), w.nextPath)))
                /\ wf' = [wf EXCEPT ![s].pc = "cm_sha"]
                /\ hist' = [hist EXCEPT ![s] = h]
                /\ UNCHANGED <<remoteManifest, clock, isProcessing, error, status, basis, ops>>
    /\ UNCHANGED <<bg, gallery>>

\* handleDeleteAlbum begins; for 'normal' it returns at once
StartDeleteAlbum(s, albumName) ==
    /\ CanStart(s, "deleteAlbum")
    /\ albumName \in AlbumKeys(manifest[s][1])
    /\ ops' = ops + Cost("deleteAlbum")
    /\ LET imagesToDelete == GetAlbumOrEmpty(manifest[s][1], albumName)
       IN  IF albumName = Normal
           THEN /\ hist' = [hist EXCEPT ![s] = EndHist(StartHist("deleteAlbum", basis[s]), "returned")]
                /\ UNCHANGED <<wf, isProcessing, manifest>>
           ELSE /\ hist' = [hist EXCEPT ![s] = StartHist("deleteAlbum", basis[s])]
                /\ isProcessing' = [isProcessing EXCEPT ![s] = TRUE]
                /\ IF imagesToDelete = <<>>
                   THEN /\ MutateAlbums(s, DelAlbum(manifest[s][1], albumName))
                        /\ wf' = [wf EXCEPT ![s] = [IdleWf EXCEPT !.kind = "deleteAlbum",
                                                        !.pc = "cm_sha", !.album = albumName]]
                   ELSE /\ wf' = [wf EXCEPT ![s] = [IdleWf EXCEPT !.kind = "deleteAlbum",
                                                        !.pc = "da_sha", !.album = albumName,
                                                        !.images = imagesToDelete, !.idx = 1]]
                        /\ UNCHANGED manifest
    /\ UNCHANGED <<remoteManifest, blobs, clock, error, status, basis, fails>>
    /\ UNCHANGED <<bg, gallery>>

\* a variant of DeleteAlbumAdvance that leaves the loop after its first image
DeleteAlbumAdvanceOnce(s, h) ==
    /\ hist' = [hist EXCEPT ![s] = h]
    /\ wf' = [wf EXCEPT ![s].pc = "cm_sha"]
    /\ MutateAlbums(s, DelAlbum(manifest[s][1], wf[s].album))

\* handleDeleteAlbum: the loop goes to the next image, or the album key is deleted
DeleteAlbumAdvance(s, h) ==
    /\ hist' = [hist EXCEPT ![s] = h]
    /\ IF wf[s].idx < Len(wf[s].images)
       THEN /\ wf' = [wf EXCEPT ![s].pc = "da_sha", ![s].idx = wf[s].idx + 1]
            /\ UNCHANGED manifest
       ELSE /\ wf' = [wf EXCEPT ![s].pc = "cm_sha"]
            /\ MutateAlbums(s, DelAlbum(manifest[s][1], wf[s].album))

\* handleDeleteAlbum: sha = await getFileSha(githubToken, image.path)
DeleteAlbumSha(s, net) ==
    /\ wf[s].pc = "da_sha"
    /\ Failed(net)
    /\ LET res == ReadRes(wf[s].images[wf[s].idx].path \in blobs, net)
           h == Called(hist[s], "getFileSha", FALSE, res, <<>>)
       IN  IF Throws(res)
           THEN /\ Fail(s, ErrorKind(res), h)
                /\ UNCHANGED <<remoteManifest, blobs, clock, manifest, basis, ops>>
           ELSE /\ IF res = "notfound"
                   THEN DeleteAlbumAdvance(s, h)
                   ELSE /\ wf' = [wf EXCEPT ![s].pc = "da_del"]
                        /\ hist' = [hist EXCEPT ![s] = h]
                        /\ UNCHANGED manifest
                /\ UNCHANGED <<remoteManifest, blobs, clock, isProcessing, error, status,
                               basis, ops>>
    /\ UNCHANGED <<bg, gallery>>

\* handleDeleteAlbum: await deleteFile(githubToken, image.path, sha)
DeleteAlbumFile(s, net) ==
    /\ wf[s].pc = "da_del"
    /\ Failed(net)
    /\ LET path == wf[s].images[wf[s].idx].path
           res == DeleteRes(path \in blobs, net)
           h == Called(hist[s], "deleteFile", FALSE, res, <<>>)
       IN  IF Throws(res)
           THEN /\ Fail(s, ErrorKind(res), h)
                /\ UNCHANGED <<remoteManifest, blobs, clock, manifest, basis, ops>>
           ELSE /\ blobs' = IF res = "ok" THEN blobs \ {path} ELSE blobs
                /\ DeleteAlbumAdvance(s, h)
                /\ UNCHANGED <<remoteManifest, clock, isProcessing, error, status, basis, ops>>
    /\ UNCHANGED <<bg, gallery>>

\* a variant of RenamePath whose pattern is not anchored to the directory
RenamePathEverywhere(path, oldName, newSlug) ==
    [path EXCEPT !.dir = IF @ = oldName THEN newSlug ELSE @,
                 !.pre = IF @ = oldName THEN newSlug ELSE @]

\* a variant of RenamePath that leaves the path as it is
RenamePathKeep(path, oldName, newSlug) == path

\* handleRenameAlbum, line 180: image.path.replace(new RegExp(`^${oldName}/`), `${newSlug}/`)
RenamePath(path, oldName, newSlug) ==
    IF path.dir = oldName THEN [path EXCEPT !.dir = newSlug] ELSE path

\* a variant of RenameRefused without the test for the 'normal' album
RenameRefusedNoNormalTest(albums, oldName, newSlug) ==
    newSlug = <<>> \/ oldName = newSlug \/ HasAlbum(albums, newSlug)

\* a variant of RenameRefused without the test for an album of the new name
RenameRefusedNoDuplicateTest(albums, oldName, newSlug) ==
    oldName = Normal \/ newSlug = <<>> \/ oldName = newSlug

\* handleRenameAlbum, line 168: the renames it refuses
RenameRefused(albums, oldName, newSlug) ==
    oldName = Normal \/ newSlug = <<>> \/ oldName = newSlug \/ HasAlbum(albums, newSlug)

\* h is the history of a handleRenameAlbum that ended in its catch block
FailedRename(h) == h.kind = "rename" /\ h.outcome \in {"Conflict", "Transient", "ReadFailed"}

\* handleRenameAlbum begins
StartRename(s, oldName, newName) ==
    /\ CanStart(s, "rename")
    /\ oldName \in AlbumKeys(manifest[s][1])
    /\ ops' = ops + Cost("rename")
    /\ LET newSlug == slugify(newName)
           albums == manifest[s][1]
           imagesToMove == GetAlbumOrEmpty(albums, oldName)
       IN  IF RenameRefused(albums, oldName, newSlug)
           THEN /\ error' = [error EXCEPT ![s] = "InvalidRename"]
                /\ hist' = [hist EXCEPT ![s] = EndHist(StartHist("rename", basis[s]), "InvalidRename")]
                /\ UNCHANGED <<wf, isProcessing, manifest>>
           ELSE /\ hist' = [hist EXCEPT ![s] =
                               [StartHist("rename", basis[s]) EXCEPT !.trip =
                                   IF FailedRename(hist[s]) THEN <<hist[s].outcome>>
                                   ELSE <<>>]]
                /\ isProcessing' = [isProcessing EXCEPT ![s] = TRUE]
                /\ error' = error
                /\ IF imagesToMove = <<>>
                   THEN /\ MutateAlbums(s, PutAlbum(DelAlbum(albums, oldName), newSlug, <<>>))
                        /\ wf' = [wf EXCEPT ![s] = [IdleWf EXCEPT !.kind = "rename",
                                      !.pc = "cm_sha", !.album = oldName, !.newSlug = newSlug]]
                   ELSE /\ wf' = [wf EXCEPT ![s] = [IdleWf EXCEPT !.kind = "rename",
                                      !.pc = "rn_get", !.album = oldName, !.newSlug = newSlug,
                                      !.images = imagesToMove, !.idx = 1]]
                        /\ UNCHANGED manifest
    /\ UNCHANGED <<remoteManifest, blobs, clock, status, basis, fails>>
    /\ UNCHANGED <<bg, gallery>>

\* handleRenameAlbum: content = await getRawFileContent(image.path)
RenameRead(s, net) ==
    /\ wf[s].pc = "rn_get"
    /\ Failed(net)
    /\ LET res == ReadRes(wf[s].images[wf[s].idx].path \in blobs, net)
           h == Called(hist[s], "getRawFileContent", FALSE, res, <<>>)
       IN  IF res # "ok"
           THEN /\ Fail(s, IF res = "notfound" THEN "ReadFailed" ELSE ErrorKind(res), h)
                /\ UNCHANGED <<remoteManifest, blobs, clock, manifest, basis, ops>>
           ELSE /\ wf' = [wf EXCEPT ![s].pc = "rn_put"]
                /\ hist' = [hist EXCEPT ![s] = h]
                /\ UNCHANGED <<remoteManifest, blobs, clock, manifest, isProcessing,
                               error, status, basis, ops>>
    /\ UNCHANGED <<bg, gallery>>

\* handleRenameAlbum: await uploadFile(githubToken, newPath, content), then the
\* entry { ...image, path: newPath } is pushed
RenameUpload(s, net) ==
    /\ wf[s].pc = "rn_put"
    /\ Failed(net)
    /\ LET w == wf[s]
           image == w.images[w.idx]
           newPath == RenamePath(image.path, w.album, w.newSlug)
           res == CreateRes(newPath \in blobs, net)
           h == Called(hist[s], "uploadFile", FALSE, res, <<>>)
       IN  IF Throws(res)
           THEN /\ Fail(s, ErrorKind(res), h)
                /\ UNCHANGED <<remoteManifest, blobs, clock, manifest, basis, ops>>
           ELSE /\ blobs' = IF res = "ok" THEN blobs \cup {newPath} ELSE blobs
                /\ wf' = [wf EXCEPT ![s].pc = "rn_sha",
                                    ![s].entries = Append(w.entries, [image EXCEPT !.path = newPath])]
                /\ hist' = [hist EXCEPT ![s] = h]
                /\ UNCHANGED <<remoteManifest, clock, manifest, isProcessing, error, status,
                               basis, ops>>
    /\ UNCHANGED <<bg, gallery>>

\* handleRenameAlbum: the loop goes to the next image, or the album is moved to its
\* new key in manifest.albums
RenameAdvance(s, h) ==
    /\ hist' = [hist EXCEPT ![s] = h]
    /\ IF wf[s].idx < Len(wf[s].images)
       THEN /\ wf' = [wf EXCEPT ![s].pc = "rn_get", ![s].idx = wf[s].idx + 1]
            /\ UNCHANGED manifest
       ELSE /\ wf' = [wf EXCEPT ![s].pc = "cm_sha"]
            /\ MutateAlbums(s, PutAlbum(DelAlbum(manifest[s][1], wf[s].album),
                                        wf[s].newSlug, wf[s].entries))

\* handleRenameAlbum: sha = await getFileSha(githubToken, image.path)
RenameSha(s, net) ==
    /\ wf[s].pc = "rn_sha"
    /\ Failed(net)
    /\ LET res == ReadRes(wf[s].images[wf[s].idx].path \in blobs, net)
           h == Called(hist[s], "getFileSha", FALSE, res, <<>>)
       IN  IF Throws(res)
           THEN /\ Fail(s, ErrorKind(res), h)
                /\ UNCHANGED <<remoteManifest, blobs, clock, manifest, basis, ops>>
           ELSE /\ IF res = "notfound"
                   THEN RenameAdvance(s, h)
                   ELSE /\ wf' = [wf EXCEPT ![s].pc = "rn_del"]
                        /\ hist' = [hist EXCEPT ![s] = h]
                        /\ UNCHANGED manifest
                /\ UNCHANGED <<remoteManifest, blobs, clock, isProcessing, error, status,
                               basis, ops>>
    /\ UNCHANGED <<bg, gallery>>

\* handleRenameAlbum: await deleteFile(githubToken, image.path, sha)
RenameDelete(s, net) ==
    /\ wf[s].pc = "rn_del"
    /\ Failed(net)
    /\ LET path == wf[s].images[wf[s].idx].path
           res == DeleteRes(path \in blobs, net)
           h == Called(hist[s], "deleteFile", FALSE, res, <<>>)
       IN  IF Throws(res)
           THEN /\ Fail(s, ErrorKind(res), h)
                /\ UNCHANGED <<remoteManifest, blobs, clock, manifest, basis, ops>>
           ELSE /\ blobs' = IF res = "ok" THEN blobs \ {path} ELSE blobs
                /\ RenameAdvance(s, h)
                /\ UNCHANGED <<remoteManifest, clock, isProcessing, error, status, basis, ops>>
    /\ UNCHANGED <<bg, gallery>>

\* a variant of AddAlbumRefused without the test for an album of that name
AddAlbumRefusedNoDuplicateTest(albums, newSlug) == newSlug = <<>>

\* handleAddAlbum, line 205: the names it refuses
AddAlbumRefused(albums, newSlug) == newSlug = <<>> \/ HasAlbum(albums, newSlug)

\* handleAddAlbum begins: it sets no isProcessing and has no try block
StartAddAlbum(s, albumName) ==
    /\ CanStart(s, "addAlbum")
    /\ ops' = ops + Cost("addAlbum")
    /\ LET newSlug == slugify(albumName)
           albums == manifest[s][1]
       IN  IF AddAlbumRefused(albums, newSlug)
           THEN /\ error' = [error EXCEPT ![s] = "InvalidAlbum"]
                /\ hist' = [hist EXCEPT ![s] = EndHist(StartHist("addAlbum", basis[s]), "InvalidAlbum")]
                /\ UNCHANGED <<wf, manifest>>
           ELSE /\ hist' = [hist EXCEPT ![s] = StartHist("addAlbum", basis[s])]
                /\ error' = error
                /\ MutateAlbums(s, PutAlbum(albums, newSlug, <<>>))
                /\ wf' = [wf EXCEPT ![s] = [IdleWf EXCEPT !.kind = "addAlbum", !.pc = "cm_sha",
                                                          !.newSlug = newSlug]]
    /\ UNCHANGED <<remoteManifest, blobs, clock, isProcessing, status, basis, fails>>
    /\ UNCHANGED <<bg, gallery>>

\* every album name of the model
AlbumNames == ({Normal, AlbumA} \cup {slugify(r) : r \in RawNames}) \ {<<>>}

\* the images the gallery of a session shows
ShownPaths(s) == IF manifest[s] = <<>> THEN {} ELSE AlbumPaths(manifest[s][1])

Next ==
    \/ \E s \in Sessions, net \in Net : fetchManifestData(s, net)
    \/ \E s \in Sessions, a \in AlbumNames, f \in Batches : StartUpload(s, a, f)
    \/ \E s \in Sessions, net \in Net, now \in clock..MaxClock : UploadGetManifest(s, net, now)
    \/ \E s \in Sessions, net \in Net, now \in clock..MaxClock : UploadFileStep(s, net, now)
    \/ \E s \in Sessions : \E a \in AlbumNames, path \in ShownPaths(s) : StartDeleteImage(s, a, path)
    \/ \E s \in Sessions, net \in Net : DeleteImageSha(s, net)
    \/ \E s \in Sessions, net \in Net : DeleteImageFile(s, net)
    \/ \E s \in Sessions, a \in AlbumNames : StartDeleteAlbum(s, a)
    \/ \E s \in Sessions, net \in Net : DeleteAlbumSha(s, net)
    \/ \E s \in Sessions, net \in Net : DeleteAlbumFile(s, net)
    \/ \E s \in Sessions, a \in AlbumNames, r \in RawNames : StartRename(s, a, r)
    \/ \E s \in Sessions, net \in Net : RenameRead(s, net)
    \/ \E s \in Sessions, net \in Net : RenameUpload(s, net)
    \/ \E s \in Sessions, net \in Net : RenameSha(s, net)
    \/ \E s \in Sessions, net \in Net : RenameDelete(s, net)
    \/ \E s \in Sessions, r \in RawNames : StartAddAlbum(s, r)
    \/ \E s \in Sessions, net \in Net : CommitSha(s, net)
    \/ \E s \in Sessions, net \in Net : CommitPut(s, net)

Spec == Init /\ [][Next]_vars

\* the sessions open on a repository that earlier use has left in any of its states
RepoSpec == RepoInit /\ [][Next]_vars

\* the request the handler of s awaits is answered
Returns(s) ==
    \/ \E net \in Net, now \in clock..MaxClock :
          UploadGetManifest(s, net, now) \/ UploadFileStep(s, net, now)
    \/ \E net \in Net :
          \/ DeleteImageSha(s, net) \/ DeleteImageFile(s, net)
          \/ DeleteAlbumSha(s, net) \/ DeleteAlbumFile(s, net)
          \/ RenameRead(s, net) \/ RenameUpload(s, net)
          \/ RenameSha(s, net) \/ RenameDelete(s, net)
          \/ CommitSha(s, net) \/ CommitPut(s, net)

\* the sessions of Spec on a network that answers every request in the end
LiveSpec == Spec /\ \A s \in Sessions : WF_vars(Returns(s))

\* ------------------------------------------------------- GalleryManager
\* Object.keys(manifest.albums).sort(), a new array at every render
sortedAlbums(g) == [i \in 1..Len(g.albums) |-> g.albums[i].name]

\* imagesForSelectedAlbum.length: manifest.albums[selectedAlbum] || []
SelectedLength(g) ==
    IF g.selectedAlbum = <<>> THEN 0
    ELSE LET hit == SelectSeq(g.albums, LAMBDA e : e.name = g.selectedAlbum[1])
         IN  IF hit = <<>> THEN 0 ELSE hit[1].n

\* Math.ceil(imagesForSelectedAlbum.length / IMAGES_PER_PAGE)
totalPages(g) == (SelectedLength(g) + IMAGES_PER_PAGE - 1) \div IMAGES_PER_PAGE

\* the other variables of the module: no GalleryManager step changes them
tabVars ==
    <<remoteManifest, blobs, clock, manifest, isProcessing, error, status, wf, hist,
      basis, ops, fails, bg>>

\* SettingsTab renders GalleryManager with another manifest
GalleryProp(p) ==
    /\ ~gallery.effect
    /\ p # <<>> /\ p # gallery.albums
    /\ gallery' = [gallery EXCEPT !.albums = p, !.effect = TRUE, !.why = "prop"]
    /\ UNCHANGED tabVars

\* the album button, line 131: setSelectedAlbum(albumName)
GallerySelect(albumName) ==
    /\ ~gallery.effect
    /\ \E i \in 1..Len(gallery.albums) : gallery.albums[i].name = albumName
    /\ gallery.selectedAlbum # <<albumName>>
    /\ gallery' = [gallery EXCEPT !.selectedAlbum = <<albumName>>, !.effect = TRUE,
                                  !.why = "select"]
    /\ UNCHANGED tabVars

\* handleNextPage; the button is shown when totalPages > 1.  (handlePrevPage needs
\* currentPage > 1 with no effect due, a state the component is never in.)
handleNextPage ==
    /\ ~gallery.effect
    /\ totalPages(gallery) > 1
    /\ gallery.currentPage < totalPages(gallery)
    /\ gallery' = [gallery EXCEPT !.currentPage = @ + 1, !.effect = TRUE, !.why = "next"]
    /\ UNCHANGED tabVars

\* the dependencies [sortedAlbums, selectedAlbum] of the effect against those of
\* the render before: sortedAlbums is a new array at every render, so they differ
GalleryDepsChanged(g) == TRUE

\* the effect of lines 50-59, run after a render: it selects an album when none
\* or a missing one is selected, then setCurrentPage(1); a state that changed
\* brings another render
GalleryEffect ==
    /\ gallery.effect
    /\ LET g == gallery
           names == sortedAlbums(g)
           has == g.selectedAlbum # <<>>
                     /\ \E i \in 1..Len(names) : names[i] = g.selectedAlbum[1]
           sel == IF g.selectedAlbum = <<>> /\ Len(names) > 0 THEN <<names[1]>>
                  ELSE IF g.selectedAlbum # <<>> /\ ~has
                       THEN (IF Len(names) > 0 THEN <<names[1]>> ELSE <<>>)
                       ELSE g.selectedAlbum
       IN  IF GalleryDepsChanged(g)
           THEN gallery' = [g EXCEPT !.selectedAlbum = sel, !.currentPage = 1,
                                     !.effect = (sel # g.selectedAlbum \/ g.currentPage # 1),
                                     !.why = IF sel # g.selectedAlbum THEN "select"
                                             ELSE "effect"]
           ELSE gallery' = [g EXCEPT !.effect = FALSE]
    /\ UNCHANGED tabVars

GalleryNext ==
    \/ \E p \in GalleryProps : GalleryProp(p)
    \/ \E a \in {Normal, AlbumA} : GallerySelect(a)
    \/ handleNextPage
    \/ GalleryEffect

\* the GalleryManager of a tab, from its first render on
GallerySpec == Init /\ [][GalleryNext]_vars

\* handleAddAlbum never calls setIsProcessing, so every control of the tab stays
\* enabled while it awaits its write: the user turns to them, and the invocation
\* goes on beside whatever handler the session runs next
RunsBeside(s) ==
    /\ wf[s].kind = "addAlbum"
    /\ wf[s].pc = "cm_put"
    /\ ~isProcessing[s]
    /\ bg[s] = <<>>
    /\ bg' = [bg EXCEPT ![s] = <<[sha |-> wf[s].sha, content |-> wf[s].content,
                                  own |-> <<>>]>>]
    /\ wf' = [wf EXCEPT ![s] = IdleWf]
    /\ hist' = [hist EXCEPT ![s] = EndHist(hist[s], "beside")]
    /\ UNCHANGED <<remoteManifest, blobs, clock, manifest, isProcessing, error, status,
                   basis, ops, fails>>
    /\ UNCHANGED gallery

\* updateAndPushManifest of the handleAddAlbum that runs beside: its write of
\* manifest.json, then setManifest(newManifest).  handleAddAlbum has no try: a
\* rejection sets no error
BesidePut(s, net) ==
    /\ bg[s] # <<>>
    /\ Failed(net)
    /\ LET b == bg[s][1]
           res == PushRes(remoteManifest, b.sha, net)
           written == Written(remoteManifest, b.content)
       IN  IF Throws(res)
           THEN UNCHANGED <<remoteManifest, manifest, hist, basis>>
           ELSE /\ remoteManifest' = IF res = "ok" THEN written ELSE remoteManifest
                /\ manifest' = IF b.own = <<>> THEN manifest
                               ELSE [manifest EXCEPT ![s] = b.own]
                /\ hist' = [q \in Sessions |->
                               IF wf[q].pc = "cm_put" /\ written # remoteManifest
                               THEN [hist[q] EXCEPT !.changed = TRUE]
                               ELSE hist[q]]
                /\ basis' = [basis EXCEPT ![s] = <<written>>]
    /\ bg' = [bg EXCEPT ![s] = <<>>]
    /\ UNCHANGED <<blobs, clock, isProcessing, error, status, wf, ops>>
    /\ UNCHANGED gallery

NextBeside ==
    \/ Next
    \/ \E s \in Sessions : RunsBeside(s)
    \/ \E s \in Sessions, net \in Net : BesidePut(s, net)

\* the sessions of Spec, with users who do not wait for handleAddAlbum
BesideSpec == Init /\ [][NextBeside]_vars

\* ------------------------------------------------------------- properties
ErrorOutcomes == {"Conflict", "Transient", "NotFound", "ReadFailed"}

\* session s gets the answer to its write of manifest.json in this step
CommitEnds(s) == wf[s].pc = "cm_put" /\ wf'[s].pc = "idle"

\* the albums object handed to updateAndPushManifest as newManifest
CommitArg(s) == IF ByRef(wf[s].kind) THEN manifest[s][1] ELSE wf[s].newM

\* C1: a manifest write succeeds only if the remote manifest is still the file from
\* which the workflow took the manifest contents it modifies (the file getManifest
\* read for an upload, the file the session's in-memory manifest was taken from for
\* the other handlers).
C1_WriteOnlyIfUnchanged ==
    [][\A s \in Sessions :
          (CommitEnds(s) /\ hist'[s].outcome = "ok") => hist[s].basis = <<remoteManifest>>]_vars

\* C2: the first remote call of every mutating handler is the fetch of the manifest
\* (getManifest), so that the manifest it commits derives from the fetched value.
C2_FetchFirst ==
    \A s \in Sessions :
        (hist[s].kind \in {"upload", "deleteImage", "deleteAlbum", "rename"} /\ hist[s].n = 1)
            => hist[s].op = "getManifest"

\* C3: the in-memory manifest of a session changes only when the tab loads it or as
\* the last step of a commit that succeeded.
C3_MemoryChangesOnSuccessOnly ==
    [][\A s \in Sessions :
          manifest'[s] # manifest[s]
              => (manifest[s] = <<>> \/ (CommitEnds(s) /\ hist'[s].outcome = "ok"))]_vars

\* the last call of session s is a write of manifest.json
IsManifestWrite(h) == h.onManifest /\ h.op \in {"updateFile", "uploadFile"}

\* C4: a write of manifest.json is the call that follows a read of the manifest's
\* revision tag (getFileSha that answered) in the same handler invocation; it is an
\* update carrying exactly the tag read when there is one, and a create without a
\* tag when the read found no file.
C4_WriteFollowsTagRead ==
    [][\A s \in Sessions :
          (IsManifestWrite(hist'[s]) /\ ~IsManifestWrite(hist[s]))
              => /\ hist[s].op = "getFileSha" /\ hist[s].onManifest
                 /\ hist[s].outcome = "running"
                 /\ hist[s].res \in {"ok", "notfound"}
                 /\ hist'[s].tag = hist[s].tag
                 /\ (hist'[s].op = "updateFile") = (hist[s].tag # <<>>)
                 /\ (hist'[s].op = "uploadFile") = (hist[s].res = "notfound")]_vars

\* C4 witness: an update of manifest.json that carried the tag read has succeeded
C4_Witness ==
    \E s \in Sessions :
        /\ hist[s].outcome = "ok" /\ hist[s].op = "updateFile" /\ hist[s].tag # <<>>

\* C5 as stated: when another writer has changed the remote manifest since the tag
\* read of a commit, the write of that commit does not succeed and the remote
\* manifest stays as the other writer left it.
C5_FailsAfterAnyChange ==
    [][\A s \in Sessions :
          (CommitEnds(s) /\ hist[s].changed)
              => (hist'[s].outcome # "ok" /\ remoteManifest' = remoteManifest)]_vars

\* C5 amended: when the remote manifest at the write is not the file whose tag the
\* commit read (another writer changed it, or created it), the write fails, with
\* ConflictError whenever the store answers, after one write attempt, and the remote
\* manifest keeps the other writer's value.
C5_ConflictOnOtherContent ==
    [][\A s \in Sessions :
          (CommitEnds(s) /\ remoteManifest # hist[s].tag)
              => /\ hist'[s].outcome \in {"Conflict", "Transient"}
                 /\ hist'[s].res = "conflict" <=> hist'[s].outcome = "Conflict"
                 /\ hist'[s].res # "transient" => hist'[s].outcome = "Conflict"
                 /\ hist[s].mwrites = 0
                 /\ remoteManifest' = remoteManifest]_vars

\* C5 witness: a commit has ended with ConflictError on its write of manifest.json
C5_Witness ==
    \E s \in Sessions :
        /\ hist[s].outcome = "Conflict" /\ IsManifestWrite(hist[s])
        /\ remoteManifest # hist[s].tag

\* C6: the remote manifest changes only by the successful write of a commit, and it
\* then is the complete manifest handed to that commit; a commit that fails leaves
\* it as it was.
C6_WholeFileReplacement ==
    [][/\ remoteManifest' # remoteManifest
          => \E s \in Sessions :
                 /\ CommitEnds(s) /\ hist'[s].outcome = "ok"
                 /\ remoteManifest' = <<AlbumsDoc(CommitArg(s))>>
       /\ \A s \in Sessions :
              CommitEnds(s)
                  => \/ hist'[s].outcome = "ok" /\ remoteManifest' = <<AlbumsDoc(CommitArg(s))>>
                     \/ hist'[s].outcome \in {"Conflict", "Transient"}
                            /\ remoteManifest' = remoteManifest]_vars

\* C6 witness: a commit has replaced an existing manifest by the session's manifest
C6_Witness ==
    \E s \in Sessions :
        /\ hist[s].outcome = "ok" /\ hist[s].op = "updateFile"
        /\ remoteManifest = <<AlbumsDoc(manifest[s][1])>>
        /\ remoteManifest # hist[s].tag

\* C7: once a remote call of a handler invocation has failed, the invocation makes
\* no further remote call.
C7_NoCallAfterFailure ==
    [][\A s \in Sessions :
          (hist[s].outcome = "running" /\ hist[s].failed)
              => ~(hist'[s].outcome = "running" /\ hist'[s].n > hist[s].n)]_vars

\* C8: when an upload or the commit of handleUploadComplete has failed, the upload
\* panel does not report success.
C8_FailureReachesCaller ==
    \A s \in Sessions :
        (hist[s].kind = "upload" /\ hist[s].outcome \in ErrorOutcomes) => status[s] # "success"

EntryPaths(entries) == {entries[i].path : i \in 1..Len(entries)}

\* the paths the remote manifest records
RemotePaths ==
    IF remoteManifest = <<>> THEN {}
    ELSE AlbumPaths(remoteManifest[1].albums) \cup EntryPaths(remoteManifest[1].images)

\* the call session s gets answered in this step is an upload of the batch that fails
UploadFails(s) ==
    /\ wf[s].kind = "upload" /\ wf[s].pc = "up_put"
    /\ hist'[s].op = "uploadFile" /\ hist'[s].res \in {"conflict", "transient"}

\* C9: handleUploadComplete reaches its commit only with every file of the batch
\* uploaded; when the upload of a file fails the handler ends with that error
\* without having written manifest.json, the remote manifest and the store stay as
\* they are, and the files uploaded earlier in the batch are in the store and in
\* no record of the remote manifest.
C9_NoCommitAfterFailedUpload ==
    /\ [](\A s \in Sessions :
             (wf[s].kind = "upload" /\ wf[s].pc \in {"cm_sha", "cm_put"})
                 => (Len(wf[s].entries) = Len(wf[s].files)
                        /\ EntryPaths(wf[s].entries) \subseteq blobs))
    /\ [][\A s \in Sessions :
             UploadFails(s)
                 => /\ wf'[s].pc = "idle" /\ hist'[s].outcome \in ErrorOutcomes
                    /\ hist[s].mwrites = 0
                    /\ remoteManifest' = remoteManifest /\ blobs' = blobs
                    /\ EntryPaths(wf[s].entries) \subseteq blobs'
                    /\ EntryPaths(wf[s].entries) \cap RemotePaths = {}]_vars

\* an upload of a batch has ended at a failed upload of a file, and a file uploaded
\* before it is in the store, recorded nowhere in the remote manifest
C9_Witness ==
    \E s \in Sessions :
        /\ hist[s].kind = "upload" /\ hist[s].outcome \in {"Conflict", "Transient"}
        /\ hist[s].op = "uploadFile" /\ ~hist[s].onManifest
        /\ \E p \in blobs : p.name = <<"p">> /\ p \notin RemotePaths

\* the commit of an upload of a batch succeeds in this step
UploadCommits(s) == wf[s].kind = "upload" /\ CommitEnds(s) /\ hist'[s].outcome = "ok"

\* C10: the paths handleUploadComplete makes for the files of one batch are pairwise
\* distinct, whatever the clock reads and although the files have the same name,
\* and when its commit succeeds the manifest written and kept in memory is the
\* manifest it fetched with exactly one more record in the album for each file
\* of the batch, the other albums as fetched.
C10_OneRecordPerFile ==
    /\ [](\A s \in Sessions :
             wf[s].kind = "upload"
                 => /\ Cardinality(EntryPaths(wf[s].entries)) = Len(wf[s].entries)
                    /\ wf[s].pc = "up_put" => wf[s].nextPath \notin EntryPaths(wf[s].entries))
    /\ [][\A s \in Sessions :
             UploadCommits(s)
                 => \E m \in {manifest'[s][1]} :
                      /\ remoteManifest' = <<AlbumsDoc(m)>>
                      /\ Len(GetAlbum(m, wf[s].album))
                            = Len(GetAlbumOrEmpty(wf[s].cur, wf[s].album)) + Len(wf[s].files)
                      /\ EntryPaths(GetAlbum(m, wf[s].album))
                            = EntryPaths(GetAlbumOrEmpty(wf[s].cur, wf[s].album))
                                 \cup EntryPaths(wf[s].entries)
                      /\ \A k \in AlbumKeys(wf[s].cur) \ {wf[s].album} :
                            HasAlbum(m, k) /\ GetAlbum(m, k) = GetAlbum(wf[s].cur, k)
                      /\ AlbumKeys(m) = AlbumKeys(wf[s].cur) \cup {wf[s].album}]_vars

\* an upload of two files of the same name has succeeded, and its two records, made
\* at one clock reading, are the last two of the album with paths one apart
C10_Witness ==
    \E s \in Sessions :
        /\ hist[s].kind = "upload" /\ hist[s].outcome = "ok"
        /\ manifest[s] # <<>>
        /\ \E k \in AlbumKeys(manifest[s][1]) :
              LET im == GetAlbum(manifest[s][1], k)
              IN  /\ Len(im) >= 2
                  /\ im[Len(im)].path.name = <<"p">>
                  /\ im[Len(im) - 1].path.name = <<"p">>
                  /\ im[Len(im)].createdAt = im[Len(im) - 1].createdAt
                  /\ im[Len(im)].path.ts = im[Len(im) - 1].path.ts + 1
                  /\ remoteManifest = <<AlbumsDoc(manifest[s][1])>>

\* the albums getManifest returns for a file of the store when its request succeeds
StoredAlbums(file) == getManifest(file, "ok")

\* C11: when the commit of an upload succeeds, the manifest written holds every
\* album that was in the store's manifest when the handler fetched it, each with
\* its records as they were, and the target album holds its records of that
\* moment followed by the new records in upload order.
C11_AppendsToExisting ==
    [][\A s \in Sessions :
          UploadCommits(s)
              => LET old == StoredAlbums(hist[s].basis[1])
                     m == remoteManifest'[1].albums
                 IN  /\ \A k \in AlbumKeys(old) \ {wf[s].album} :
                           HasAlbum(m, k) /\ GetAlbum(m, k) = GetAlbum(old, k)
                     /\ HasAlbum(m, wf[s].album)
                     /\ GetAlbum(m, wf[s].album)
                           = GetAlbumOrEmpty(old, wf[s].album) \o wf[s].entries]_vars

\* the getFileSha of handleDeleteImage is answered in this step: the blob is absent
DeleteImageFindsNoBlob(s) ==
    /\ wf[s].kind = "deleteImage" /\ wf[s].pc = "di_sha"
    /\ hist'[s] # hist[s] /\ hist'[s].res = "notfound"

\* C12: when handleDeleteImage finds no sha for the path (the blob is absent) it ends
\* with the not-found error, having made no other call (no blob delete, no manifest
\* write), and the remote manifest, the store and the in-memory manifest are unchanged.
C12_AbsentBlobNotFound ==
    [][\A s \in Sessions :
          DeleteImageFindsNoBlob(s)
              => /\ wf'[s].pc = "idle"
                 /\ hist'[s].outcome = "NotFound" /\ error'[s] = "NotFound"
                 /\ hist'[s].op = "getFileSha" /\ hist[s].n = 0 /\ hist[s].mwrites = 0
                 /\ remoteManifest' = remoteManifest /\ blobs' = blobs
                 /\ manifest' = manifest
                 /\ ~isProcessing'[s]]_vars

\* a handleDeleteImage has ended with the not-found error for a path that is not in
\* the store
C12_Witness ==
    \E s \in Sessions :
        /\ hist[s].kind = "deleteImage" /\ hist[s].outcome = "NotFound"
        /\ hist[s].op = "getFileSha" /\ hist[s].res = "notfound"
        /\ error[s] = "NotFound" /\ wf[s].pc = "idle"

\* seq without its element at position i
RemoveAt(seq, i) == SubSeq(seq, 1, i - 1) \o SubSeq(seq, i + 1, Len(seq))

\* handleDeleteImage has deleted the blob in this step and takes the record out of
\* the manifest it will commit
DeleteImageFilters(s) ==
    wf[s].kind = "deleteImage" /\ wf[s].pc = "di_del" /\ wf'[s].pc = "cm_sha"

DeleteImageCommitFails(s) ==
    /\ wf[s].kind = "deleteImage" /\ wf[s].pc \in {"cm_sha", "cm_put"}
    /\ hist'[s] # hist[s] /\ hist'[s].res \in {"conflict", "transient"}

\* C14: handleDeleteImage writes manifest.json only after its deleteFile of the blob
\* has returned; when the commit then fails the handler ends with that error shown,
\* the blob stays deleted, the remote manifest is left as it is, so that a record
\* of the path it holds now names a missing blob, and no further call is made.
C14_DanglingAfterFailedCommit ==
    /\ [](\A s \in Sessions :
             wf[s].kind = "deleteImage"
                 => /\ wf[s].pc \in {"di_sha", "di_del"} => hist[s].mwrites = 0
                    /\ wf[s].pc \in {"cm_sha", "cm_put"}
                          => (hist[s].n >= 2 /\ wf[s].nextPath \notin blobs))
    /\ [][\A s \in Sessions :
             DeleteImageCommitFails(s)
                 => /\ wf'[s].pc = "idle" /\ ~isProcessing'[s]
                    /\ hist'[s].outcome \in {"Conflict", "Transient"}
                    /\ error'[s] = hist'[s].outcome
                    /\ remoteManifest' = remoteManifest /\ blobs' = blobs
                    /\ wf[s].nextPath \notin blobs'
                    /\ hist[s].mwrites = 0]_vars

\* a handleDeleteImage has ended with a failed commit, and the remote manifest records
\* a path that is not in the store
C14_Witness ==
    \E s \in Sessions :
        /\ hist[s].kind = "deleteImage" /\ hist[s].outcome \in {"Conflict", "Transient"}
        /\ hist[s].onManifest /\ wf[s].pc = "idle"
        /\ \E p \in RemotePaths : p \notin blobs /\ p \notin ShownPaths(s)

\* handleDeleteAlbum is called for 'normal' in this step and returns at once
DeleteNormalReturns(s) ==
    /\ wf[s].pc = "idle" /\ hist'[s] # hist[s]
    /\ hist'[s].kind = "deleteAlbum" /\ hist'[s].outcome = "returned"

\* C15: handleDeleteAlbum('normal') ends with the protected-album error shown, having
\* made no remote call, and the remote and the in-memory manifest are unchanged.
C15_NormalIsProtected ==
    [][\A s \in Sessions :
          DeleteNormalReturns(s)
              => /\ error'[s] = "ProtectedAlbum"
                 /\ wf'[s].pc = "idle" /\ hist'[s].n = 0
                 /\ remoteManifest' = remoteManifest /\ blobs' = blobs
                 /\ manifest' = manifest]_vars

\* a request of the loop of handleDeleteAlbum is answered in this step
DeleteAlbumLoopStep(s) ==
    wf[s].kind = "deleteAlbum" /\ wf[s].pc \in {"da_sha", "da_del"} /\ hist'[s] # hist[s]

\* C16: handleDeleteAlbum takes the images of the album in order, one request at a
\* time; an image whose blob is absent is passed over and the loop goes on; a
\* request that fails ends the handler with the error, before any write of
\* manifest.json and with the album still in the manifest; the album key is removed
\* and the commit begun only when the loop has passed the last image.
C16_DeleteAlbumLoop ==
    /\ [](\A s \in Sessions :
             wf[s].kind = "deleteAlbum"
                 => /\ wf[s].pc \in {"da_sha", "da_del"}
                          => /\ hist[s].mwrites = 0
                             /\ wf[s].idx \in 1..Len(wf[s].images)
                             /\ HasAlbum(manifest[s][1], wf[s].album)
                    /\ wf[s].pc \in {"cm_sha", "cm_put"}
                          => /\ wf[s].idx = Len(wf[s].images)
                             /\ ~HasAlbum(manifest[s][1], wf[s].album))
    /\ [][\A s \in Sessions :
             DeleteAlbumLoopStep(s)
                 => LET res == hist'[s].res
                        path == wf[s].images[wf[s].idx].path
                    IN  /\ res \in {"conflict", "transient"}
                              => /\ wf'[s].pc = "idle"
                                 /\ hist'[s].outcome \in {"Conflict", "Transient"}
                                 /\ error'[s] = hist'[s].outcome
                                 /\ remoteManifest' = remoteManifest /\ blobs' = blobs
                                 /\ manifest' = manifest
                        /\ res \in {"ok", "notfound"}
                              => /\ wf'[s].pc \in {"da_sha", "da_del", "cm_sha"}
                                 /\ wf'[s].pc = "da_del" <=> (wf[s].pc = "da_sha" /\ res = "ok")
                                 /\ wf'[s].pc = "da_del" => wf'[s].idx = wf[s].idx
                                 /\ wf'[s].pc = "da_sha" => wf'[s].idx = wf[s].idx + 1
                                 /\ wf'[s].pc # "da_del" => path \notin blobs'
                                 /\ blobs' \subseteq blobs /\ blobs \ blobs' \subseteq {path}
                                 /\ remoteManifest' = remoteManifest]_vars

\* handleDeleteAlbum has found the blob of the first image absent and is at the
\* second image
C16_Witness ==
    \E s \in Sessions :
        /\ wf[s].kind = "deleteAlbum" /\ wf[s].pc = "da_sha" /\ wf[s].idx = 2
        /\ hist[s].op = "getFileSha" /\ hist[s].res = "notfound"
        /\ hist[s].outcome = "running"

\* the four renames the handler is to refuse, for a session's manifest
InvalidRename(s, oldName, newName) ==
    \/ oldName = Normal
    \/ slugify(newName) = <<>>
    \/ slugify(newName) = oldName
    \/ slugify(newName) \in AlbumKeys(manifest[s][1])

\* C17: handleRenameAlbum(oldName, newName) with oldName 'normal', or with a new name
\* whose slug is empty, is oldName, or is an album of the session's manifest, ends at
\* once with the invalid-rename error shown: it makes no remote call, starts no
\* processing, and the remote manifest, the store and the in-memory manifest are
\* unchanged.
C17_InvalidRenameRefused ==
    [][\A s \in Sessions, a \in AlbumNames, r \in RawNames :
          (StartRename(s, a, r) /\ InvalidRename(s, a, r))
              => /\ error'[s] = "InvalidRename"
                 /\ hist'[s].outcome = "InvalidRename" /\ hist'[s].n = 0
                 /\ wf'[s].pc = "idle" /\ ~isProcessing'[s]
                 /\ remoteManifest' = remoteManifest /\ blobs' = blobs
                 /\ manifest' = manifest]_vars

\* a handleRenameAlbum has been refused
C17_Witness ==
    \E s \in Sessions :
        /\ hist[s].kind = "rename" /\ hist[s].outcome = "InvalidRename" /\ hist[s].n = 0
        /\ error[s] = "InvalidRename" /\ wf[s].pc = "idle"
        /\ HasAlbum(manifest[s][1], AlbumA)

\* handleRenameAlbum leaves its loop in this step (or had no image to move) and
\* moves the album to its new key
RenameMovesKey(s) ==
    wf'[s].kind = "rename" /\ wf'[s].pc = "cm_sha" /\ wf[s].pc # "cm_sha"

\* C18: the manifest handleRenameAlbum commits is the session's manifest without the
\* key oldName and with the key newSlug holding one record for each image of
\* oldName, in the same order, its path moved from oldName/ to newSlug/ and its
\* createdAt kept; the other albums are as they were; a commit that succeeds
\* writes that manifest to the store.
C18_RenameMovesRecords ==
    /\ [][\A s \in Sessions :
             RenameMovesKey(s)
                 => LET old == manifest[s][1]
                        new == manifest'[s][1]
                        o == wf'[s].album
                        n == wf'[s].newSlug
                        from == GetAlbum(old, o)
                    IN  /\ n \in AlbumNames /\ n # o
                        /\ AlbumKeys(new) = (AlbumKeys(old) \ {o}) \cup {n}
                        /\ \A k \in AlbumKeys(old) \ {o} : GetAlbum(new, k) = GetAlbum(old, k)
                        /\ Len(GetAlbum(new, n)) = Len(from)
                        /\ \A i \in 1..Len(from) :
                              /\ from[i].path.dir = o
                              /\ GetAlbum(new, n)[i].path = [from[i].path EXCEPT !.dir = n]
                              /\ GetAlbum(new, n)[i].createdAt = from[i].createdAt]_vars
    /\ [][\A s \in Sessions :
             (wf[s].kind = "rename" /\ wf[s].pc \in {"cm_sha", "cm_put"})
                 => /\ manifest'[s] = manifest[s]
                    /\ (CommitEnds(s) /\ hist'[s].outcome = "ok")
                          => remoteManifest' = <<AlbumsDoc(manifest[s][1])>>]_vars

\* a handleRenameAlbum of the album of two images has succeeded: the store's manifest
\* has no album a, and another album holds the two records under its own directory
C18_Witness ==
    \E s \in Sessions :
        /\ hist[s].kind = "rename" /\ hist[s].outcome = "ok"
        /\ remoteManifest = <<AlbumsDoc(manifest[s][1])>>
        /\ ~HasAlbum(manifest[s][1], AlbumA)
        /\ \E k \in AlbumKeys(manifest[s][1]) :
              GetAlbum(manifest[s][1], k)
                 = <<[SeedA0 EXCEPT !.path.dir = k], [SeedA1 EXCEPT !.path.dir = k]>>

\* the path handleRenameAlbum copies the image at position i to
NewPathOf(s, i) == [wf[s].images[i].path EXCEPT !.dir = wf[s].newSlug]

\* a request of handleRenameAlbum is answered in this step and changes the store
RenameChangesStore(s) ==
    wf[s].kind = "rename" /\ hist'[s] # hist[s] /\ blobs' # blobs

\* C19: handleRenameAlbum handles each image as read, create under the new path,
\* delete of the original: it asks for the sha and the delete of the original only
\* with the copy under the new path in the store, every copy it has made stays in
\* the store while it runs, and the only changes it makes to the store are the
\* create of the copy and, with the copy there, the delete of the original.
C19_CopyBeforeDelete ==
    /\ [](\A s \in Sessions :
             wf[s].kind = "rename"
                 => /\ \A i \in 1..Len(wf[s].entries) :
                          /\ wf[s].entries[i].path = NewPathOf(s, i)
                          /\ wf[s].entries[i].path \in blobs
                    /\ wf[s].pc \in {"rn_get", "rn_put"} => Len(wf[s].entries) = wf[s].idx - 1
                    /\ wf[s].pc \in {"rn_sha", "rn_del"} => Len(wf[s].entries) = wf[s].idx
                    /\ wf[s].pc \in {"cm_sha", "cm_put"} => Len(wf[s].entries) = Len(wf[s].images))
    /\ [][\A s \in Sessions :
             RenameChangesStore(s)
                 => LET old == wf[s].images[wf[s].idx].path
                        new == NewPathOf(s, wf[s].idx)
                    IN  \/ /\ wf[s].pc = "rn_put" /\ wf'[s].pc = "rn_sha"
                           /\ new \notin blobs /\ blobs' = blobs \cup {new}
                        \/ /\ wf[s].pc = "rn_del"
                           /\ new \in blobs /\ new # old
                           /\ blobs' = blobs \ {old}]_vars

\* handleRenameAlbum has deleted the original of its first image: the original is
\* gone and the copy is in the store
C19_Witness ==
    \E s \in Sessions :
        /\ wf[s].kind = "rename" /\ wf[s].pc = "rn_get" /\ wf[s].idx = 2
        /\ hist[s].op = "deleteFile" /\ hist[s].res = "ok"
        /\ wf[s].images[1].path \notin blobs
        /\ NewPathOf(s, 1) \in blobs

\* C20: every manifest there is holds the album 'normal': the one in the store, the
\* one getManifest returns for it whether its request succeeds or fails, the one
\* each session holds in memory, and the one a handler has fetched or is
\* committing.
C20_NormalAlwaysPresent ==
    /\ remoteManifest # <<>> => HasAlbum(remoteManifest[1].albums, Normal)
    /\ \A net \in {"ok", "transient"} : HasAlbum(getManifest(remoteManifest, net), Normal)
    /\ \A s \in Sessions :
          /\ manifest[s] # <<>> => HasAlbum(manifest[s][1], Normal)
          /\ (wf[s].kind = "upload" /\ wf[s].pc \in {"up_put", "cm_sha", "cm_put"})
                => HasAlbum(wf[s].cur, Normal)
          /\ (wf[s].kind = "upload" /\ wf[s].pc \in {"cm_sha", "cm_put"})
                => HasAlbum(wf[s].newM, Normal)
          /\ wf[s].pc = "cm_put" => HasAlbum(wf[s].content, Normal)

\* handlers of both kinds that take an album key away have committed, and the album
\* 'normal' is in the store's manifest
C20_Witness ==
    /\ remoteManifest # <<>> /\ HasAlbum(remoteManifest[1].albums, Normal)
    /\ ~HasAlbum(remoteManifest[1].albums, AlbumA)
    /\ \E s \in Sessions : hist[s].kind \in {"deleteAlbum", "rename"} /\ hist[s].outcome = "ok"
    /\ \E s \in Sessions : hist[s].kind = "rename" /\ hist[s].outcome = "InvalidRename"

\* every record of an albums object has a path in the directory of its album
RecordsUnderOwnAlbum(albums) ==
    \A i \in 1..Len(albums) :
        \A j \in 1..Len(albums[i].images) : albums[i].images[j].path.dir = albums[i].name

\* C21: in the manifest the store holds, and in every manifest handleUploadComplete
\* or handleRenameAlbum hands to the store, each record of album A has a path that
\* begins with "A/".
C21_PathsBeginWithAlbum ==
    /\ remoteManifest # <<>> => RecordsUnderOwnAlbum(remoteManifest[1].albums)
    /\ \A s \in Sessions :
          (wf[s].kind \in {"upload", "rename"} /\ wf[s].pc = "cm_put")
              => RecordsUnderOwnAlbum(wf[s].content)

\* a rename has committed an album that holds an uploaded image and an image the
\* album had before, both under the new directory
C21_Witness ==
    /\ remoteManifest # <<>>
    /\ \E s \in Sessions : hist[s].kind = "rename" /\ hist[s].outcome = "ok"
    /\ \E k \in AlbumKeys(remoteManifest[1].albums) \ {Normal, AlbumA} :
          LET im == GetAlbum(remoteManifest[1].albums, k)
          IN  /\ \E j \in 1..Len(im) : im[j].path.name = <<"p">> /\ im[j].path.dir = k
              /\ \E j \in 1..Len(im) : im[j].path.name = <<"b">> /\ im[j].path.dir = k

\* no path occurs in two records of an albums object
PathsUnique(albums) ==
    \A i, k \in 1..Len(albums) :
        \A j \in 1..Len(albums[i].images), l \in 1..Len(albums[k].images) :
            albums[i].images[j].path = albums[k].images[l].path => (i = k /\ j = l)

\* C22: in the manifest the store holds no path occurs in more than one record,
\* whatever uploads, deletes and renames have run, handlers whose commit failed
\* included.
C22_PathsUnique == PathsUnique(StoredAlbums(remoteManifest))

\* every record of an albums object has a path of the form A/A_<ts>_<name>.<ext>
\* for the album A that holds it
FileNamesPrefixed(albums) ==
    \A i \in 1..Len(albums) :
        \A j \in 1..Len(albums[i].images) :
            /\ albums[i].images[j].path.dir = albums[i].name
            /\ albums[i].images[j].path.pre = slugify(albums[i].name)

\* C23: every record of the manifest the store holds has a path whose file name
\* begins with the slug of the album that holds the record, whether
\* handleUploadComplete or handleRenameAlbum has written it.
C23_FileNamePrefixed == remoteManifest # <<>> => FileNamesPrefixed(remoteManifest[1].albums)

\* fetchManifestData of session s gets the answer of getManifest in this step
LoadsManifest(s) == manifest[s] = <<>> /\ manifest'[s] # <<>>

\* the getManifest of a handleUploadComplete of session s is answered in this step
UploadFetches(s) == wf[s].kind = "upload" /\ wf[s].pc = "up_get" /\ hist'[s] # hist[s]

\* C24: when the store holds no manifest.json, getManifest returns exactly
\* { albums: { normal: [] } }, to fetchManifestData and to handleUploadComplete
\* alike: no error is shown, the handler goes on, and the call writes nothing to
\* the store.
C24_AbsentGivesBootstrap ==
    [][\A s \in Sessions :
          /\ (LoadsManifest(s) /\ remoteManifest = <<>>)
                => /\ manifest'[s] = <<defaultManifest>>
                   /\ error'[s] = "none"
                   /\ remoteManifest' = <<>> /\ blobs' = blobs
                   /\ hist' = hist
          /\ (UploadFetches(s) /\ remoteManifest = <<>>)
                => /\ wf'[s].cur = defaultManifest /\ wf'[s].pc = "up_put"
                   /\ error' = error /\ hist'[s].outcome = "running"
                   /\ hist'[s].mwrites = 0
                   /\ remoteManifest' = <<>> /\ blobs' = blobs]_vars

\* a session has opened on a repository without manifest.json: it holds the
\* bootstrap manifest, shows no error, and the repository still has no manifest.json
C24_Witness ==
    \E s \in Sessions :
        /\ manifest[s] = <<defaultManifest>> /\ basis[s] = <<remoteManifest>>
        /\ remoteManifest = <<>> /\ error[s] = "none" /\ fails = 0

\* the store holds a manifest.json of the old format { images: [...] }
IsLegacy(file) == file # <<>> /\ file[1].kind = "legacy"

\* C25: when the store holds { images: L } and the request succeeds, getManifest
\* returns { albums: { normal: L } } with the records of L in their order, to
\* fetchManifestData and to handleUploadComplete alike; the call shows no error and
\* writes nothing; the file of the old format is replaced only by the write of a
\* commit that succeeds, and what replaces it has the albums format.
C25_LegacyMigratedInMemory ==
    /\ [][\A s \in Sessions :
             /\ (LoadsManifest(s) /\ IsLegacy(remoteManifest) /\ fails' = fails)
                   => /\ manifest'[s] = <<<<[name |-> Normal, images |-> remoteManifest[1].images]>>>>
                      /\ error'[s] = "none"
                      /\ remoteManifest' = remoteManifest /\ blobs' = blobs
                      /\ hist' = hist
             /\ (UploadFetches(s) /\ IsLegacy(remoteManifest) /\ fails' = fails)
                   => /\ wf'[s].cur = <<[name |-> Normal, images |-> remoteManifest[1].images]>>
                      /\ hist'[s].mwrites = 0
                      /\ remoteManifest' = remoteManifest /\ blobs' = blobs]_vars
    /\ [][(IsLegacy(remoteManifest) /\ remoteManifest' # remoteManifest)
             => /\ \E s \in Sessions : CommitEnds(s) /\ hist'[s].outcome = "ok"
                /\ remoteManifest'[1].kind = "albums"]_vars

\* a session that opened on a manifest.json of the old format has committed: the
\* store's manifest has the albums format and 'normal' begins with the old records
C25_Witness ==
    \E s \in Sessions :
        /\ hist[s].outcome = "ok" /\ manifest[s] # <<>>
        /\ remoteManifest = <<AlbumsDoc(manifest[s][1])>>
        /\ basis[s] = <<remoteManifest>>
        /\ Len(GetAlbum(manifest[s][1], Normal)) >= Len(LegacyImages)
        /\ SubSeq(GetAlbum(manifest[s][1], Normal), 1, Len(LegacyImages)) = LegacyImages

\* every element of every list of an albums object is a record with a path
ListsOfRecords(albums) ==
    \A i \in 1..Len(albums) :
        \A j \in 1..Len(albums[i].images) : albums[i].images[j].path # NoPath

\* manifest.json decodes, it has no images list, and its albums value is missing
AlbumsAbsent(file) == file # <<>> /\ file[1].kind = "other"

\* manifest.json decodes, and its albums value is set but is not a mapping from
\* album names to lists of records
AlbumsMalformed(file) ==
    file # <<>> /\ file[1].kind = "albums" /\ ~ListsOfRecords(file[1].albums)

\* C26: when manifest.json decodes but its albums value is missing or malformed,
\* getManifest returns { albums: { normal: [] } } and no error is shown.
C26_MalformedGivesBootstrap ==
    [][\A s \in Sessions :
          (LoadsManifest(s) /\ (AlbumsAbsent(remoteManifest) \/ AlbumsMalformed(remoteManifest)))
              => (manifest'[s] = <<defaultManifest>> /\ error'[s] = "none")]_vars

\* the commit of a handleDeleteImage succeeds in this step; the handler deletes the
\* image that the handleUploadComplete before it, of the same session, added to a
\* manifest that had the album, and the store's manifest is still the one that
\* upload wrote
RoundTripEnds(s) ==
    /\ wf[s].kind = "deleteImage" /\ CommitEnds(s) /\ hist'[s].outcome = "ok"
    /\ hist[s].trip # <<>>
    /\ hist[s].basis = <<remoteManifest>>

\* C27: a handleUploadComplete of one file for an album the manifest M has, followed
\* by a handleDeleteImage of the path it added, with every request answered well and
\* no other writer, leaves the store with a manifest equal to M and without the
\* blob that was added.
C27_RoundTrip ==
    [][\A s \in Sessions :
          RoundTripEnds(s)
              => /\ StoredAlbums(remoteManifest') = StoredAlbums(hist[s].trip[1])
                 /\ wf[s].nextPath \notin blobs']_vars

\* a call of uploadFile, updateFile or deleteFile by session s is answered in this step
WriteAnswered(s) ==
    /\ wf[s].pc # "idle" /\ hist'[s] # hist[s]
    /\ hist'[s].n = hist[s].n + 1 \/ hist'[s].outcome # "running"
    /\ hist'[s].op \in {"uploadFile", "updateFile", "deleteFile"}

\* C28: uploadFile, updateFile and deleteFile return to the handler only when the
\* store has applied the write; a stale sha ends the handler with the conflict
\* error, and every other answer that is not a success, a missing-resource answer
\* included, ends it with an error.
C28_WriteReturnsOnlyIfApplied ==
    [][\A s \in Sessions :
          WriteAnswered(s)
              => /\ hist'[s].outcome \in {"running", "ok"} => hist'[s].res = "ok"
                 /\ hist'[s].res = "conflict" => hist'[s].outcome = "Conflict"
                 /\ hist'[s].res # "ok" => hist'[s].outcome \in ErrorOutcomes]_vars

\* C30: handleUploadComplete downloads manifest.json only when every file of the
\* batch is uploaded, so that the manifest it commits is the store's manifest of
\* the moment of its write, with the commits other sessions made during the
\* uploads, plus the new records.
C30_ManifestFetchedAfterUploads ==
    /\ [](\A s \in Sessions :
             (hist[s].kind = "upload" /\ hist[s].outcome = "running"
                 /\ hist[s].op = "getManifest")
                 => Len(wf[s].entries) = Len(wf[s].files))
    /\ [][\A s \in Sessions :
             UploadCommits(s)
                 => remoteManifest'
                       = <<AlbumsDoc(MergeEntries(StoredAlbums(remoteManifest), wf[s].album,
                                                  wf[s].entries))>>]_vars

\* C29: within one session at most one mutating workflow is in flight at any
\* time: none starts while another of the same session has remote calls
\* outstanding
C29_OneWorkflowInFlight ==
    \A s \in Sessions : ~(wf[s].pc # "idle" /\ bg[s] # <<>>)

\* the getManifest of the handleUploadComplete of s failed while manifest.json
\* existed: getManifest is the one call whose failure does not end the handler
FetchFailedOnExisting(s) ==
    wf[s].kind = "upload" /\ hist[s].failed /\ hist[s].basis # <<>> /\ hist[s].basis[1] # <<>>

\* C31: when the manifest read at the start of handleUploadComplete fails with a
\* transient error while manifest.json exists, the handler does not commit: no
\* write replaces the existing file by the bootstrap manifest plus the new entries
C31_NoCommitAfterFailedFetch ==
    [][\A s \in Sessions : FetchFailedOnExisting(s) => ~UploadCommits(s)]_vars

\* the last handler of session a was of this kind and ended well: manifest[a] is
\* the manifest it committed, hist[a].tag the file it wrote over
LastCommitted(a, kind) ==
    wf[a].pc = "idle" /\ hist[a].kind = kind /\ hist[a].outcome = "ok" /\ manifest[a] # <<>>

\* the paths whose records the last handleUploadComplete of a added
AddedBy(a) ==
    IF LastCommitted(a, "upload")
    THEN AlbumPaths(manifest[a][1]) \ AlbumPaths(StoredAlbums(hist[a].tag))
    ELSE {}

\* the paths whose records the last handleDeleteImage of a removed
RemovedBy(a) ==
    IF LastCommitted(a, "deleteImage")
    THEN AlbumPaths(StoredAlbums(hist[a].tag)) \ AlbumPaths(manifest[a][1])
    ELSE {}

\* the paths whose records the handler of b is to remove or move
Targets(b) ==
    IF wf[b].kind = "deleteImage" THEN {wf[b].nextPath}
    ELSE IF wf[b].kind \in {"deleteAlbum", "rename"} THEN EntryPaths(wf[b].images)
    ELSE {}

\* the handler of b ends with its write of manifest.json applied
Commits(b) == CommitEnds(b) /\ hist'[b].outcome = "ok"

\* C32: no lost update across two sessions: a record added by a's successful
\* handleUploadComplete stays in the remote manifest unless the handler that
\* commits targets it
C32_NoLostUpdate ==
    [][\A a \in Sessions : \A b \in Sessions \ {a} :
          Commits(b)
             => /\ \A p \in AddedBy(a) \cap AlbumPaths(StoredAlbums(remoteManifest)) :
                      p \in AlbumPaths(StoredAlbums(remoteManifest')) \/ p \in Targets(b)
                /\ \A p \in RemovedBy(a) \ AlbumPaths(StoredAlbums(remoteManifest)) :
                      p \notin AlbumPaths(StoredAlbums(remoteManifest'))
                         \/ p \in EntryPaths(wf[b].entries)]_vars

\* s is the only session that has opened the tab, no request has failed, and no
\* handler of s has been refused or has ended with an error (setError is called
\* by nothing else, and the model's user does not dismiss the message)
AloneAndWell(s) ==
    /\ manifest[s] # <<>>
    /\ \A q \in Sessions \ {s} : manifest[q] = <<>>
    /\ fails = 0
    /\ error[s] = "none"

\* C33: in a single session with no other writer and every remote call
\* succeeding, after each workflow completes the paths recorded in the remote
\* manifest are the image blobs of the store: no orphan, no dangling reference
C33_ManifestMatchesStore ==
    \A s \in Sessions :
        AloneAndWell(s) /\ wf[s].pc = "idle"
           => AlbumPaths(StoredAlbums(remoteManifest)) = blobs

\* a session on its own has uploaded a file to an album and then renamed the album
C33_Witness ==
    \E s \in Sessions :
        /\ AloneAndWell(s)
        /\ LastCommitted(s, "rename")
        /\ \E p \in blobs : p.name = <<"p">> /\ p.dir # p.pre

\* handleRenameAlbum of s is in its loop over imagesToMove
Renaming(s) == wf[s].kind = "rename" /\ wf[s].pc \in {"rn_get", "rn_put", "rn_sha", "rn_del"}

\* the image at position i of imagesToMove is a blob under its old path and under
\* its new path
UnderBoth(s, i) == wf[s].images[i].path \in blobs /\ NewPathOf(s, i) \in blobs

\* at most one image of the album is a blob under both paths
AtMostOneUnderBoth(s) ==
    Cardinality({i \in 1..Len(wf[s].images) : UnderBoth(s, i)}) <= 1

\* the images before the one the loop is at are blobs under the new path only, the
\* images after it under the old path only
MovedInOrder(s) ==
    \A i \in 1..Len(wf[s].images) :
        /\ i < wf[s].idx => NewPathOf(s, i) \in blobs /\ wf[s].images[i].path \notin blobs
        /\ i > wf[s].idx => wf[s].images[i].path \in blobs /\ NewPathOf(s, i) \notin blobs

\* C34: while handleRenameAlbum is in its loop, at most one image of the album is
\* a blob under both its old and its new path; every image the loop has passed is
\* a blob under the new path only, every image it has yet to reach under the old
\* path only
C34_OneImageInTransit ==
    \A s \in Sessions : Renaming(s) => AtMostOneUnderBoth(s) /\ MovedInOrder(s)

\* the record of path p names a blob that is gone, and the last handler of some
\* session was a handleDeleteImage that failed in updateAndPushManifest, after its
\* deleteFile
LeftDangling(p) ==
    /\ p \notin blobs
    /\ p \in AlbumPaths(StoredAlbums(remoteManifest))
    /\ \E a \in Sessions :
          /\ wf[a].pc = "idle"
          /\ hist[a].kind = "deleteImage" /\ hist[a].onManifest
          /\ hist[a].outcome \in {"Conflict", "Transient"}

\* the handleDeleteImage of s ends in this step and no request of it has failed
DeleteImageEndsUnfailed(s) ==
    /\ wf[s].kind = "deleteImage" /\ wf'[s].pc = "idle"
    /\ hist'[s].outcome \notin {"Conflict", "Transient"}

\* C35: a dangling reference left by a handleDeleteImage whose deleteFile succeeded
\* and whose commit failed is repaired by a retry: a later handleDeleteImage for
\* the same path, with no request failing, removes the record from the remote
\* manifest
C35_RetryRemovesDangling ==
    [][\A s \in Sessions :
          DeleteImageEndsUnfailed(s) /\ LeftDangling(wf[s].nextPath)
             => wf[s].nextPath \notin AlbumPaths(StoredAlbums(remoteManifest'))]_vars

\* an image the handleRenameAlbum of s has not copied is a blob under its new path:
\* an earlier rename has copied or moved it
PartlyMoved(s) ==
    \E i \in 1..Len(wf[s].images) : i > Len(wf[s].entries) /\ NewPathOf(s, i) \in blobs

\* the handleRenameAlbum of s, started after one of s that failed partway, ends in
\* this step, and no request of it has met a network failure
RenameRetryEnds(s) ==
    /\ wf[s].kind = "rename" /\ wf'[s].pc = "idle"
    /\ hist[s].trip # <<>>
    /\ PartlyMoved(s)
    /\ hist'[s].outcome # "Transient"

\* C36: after handleRenameAlbum has failed partway, retrying the same rename with
\* no request failing completes it: no blob remains under the old album and the
\* remote manifest lists every image under the new album
C36_RetryCompletesRename ==
    [][\A s \in Sessions :
          RenameRetryEnds(s)
             => /\ hist'[s].outcome = "ok"
                /\ \A i \in 1..Len(wf[s].images) :
                      /\ wf[s].images[i].path \notin blobs'
                      /\ NewPathOf(s, i)
                            \in EntryPaths(GetAlbumOrEmpty(StoredAlbums(remoteManifest'),
                                                           wf[s].newSlug))]_vars

\* a handler of s that sets isProcessing is running
Busy(s) == wf[s].pc # "idle" /\ wf[s].kind \in {"upload", "deleteImage", "deleteAlbum", "rename"}

\* C37: with every request answered in the end, every handleUploadComplete,
\* handleDeleteImage, handleDeleteAlbum and handleRenameAlbum that starts ends, and
\* when it ends, well or with an error, isProcessing is false
C37_HandlersEndAndEnable ==
    /\ \A s \in Sessions : Busy(s) ~> (wf[s].pc = "idle" /\ ~isProcessing[s])
    /\ [][\A s \in Sessions : Busy(s) /\ wf'[s].pc = "idle" => ~isProcessing'[s]]_vars

\* a handleRenameAlbum has ended in its catch block and isProcessing is false
C37_Witness ==
    \E s \in Sessions :
        /\ wf[s].pc = "idle" /\ FailedRename(hist[s])
        /\ ~isProcessing[s] /\ error[s] = hist[s].outcome

\* a request of the handleAddAlbum of s is answered in this step
AddAlbumStep(s) == wf[s].kind = "addAlbum" /\ wf'[s] # wf[s]

\* C38: handleAddAlbum(name) sets an error and makes no remote call when
\* slugify(name) is empty or is an album already; otherwise it commits the
\* manifest it had plus slugify(name) with an empty list, every other album as it
\* was; it creates and deletes no blob
C38_AddAlbum ==
    [][\A s \in Sessions :
          /\ \A r \in RawNames :
                StartAddAlbum(s, r)
                   => LET slug == slugify(r)
                          albums == manifest[s][1]
                      IN  /\ remoteManifest' = remoteManifest /\ blobs' = blobs
                          /\ IF slug = <<>> \/ HasAlbum(albums, slug)
                             THEN /\ error'[s] = "InvalidAlbum"
                                  /\ wf'[s].pc = "idle" /\ hist'[s].n = 0
                                  /\ hist'[s].outcome = "InvalidAlbum"
                                  /\ manifest' = manifest
                             ELSE /\ manifest'[s] = <<Append(albums, [name |-> slug,
                                                                      images |-> <<>>])>>
                                  /\ wf'[s].pc = "cm_sha" /\ wf'[s].newSlug = slug
                                  /\ error' = error
          /\ AddAlbumStep(s)
                => /\ blobs' = blobs
                   /\ manifest'[s] = manifest[s]
                   /\ IF Commits(s)
                      THEN remoteManifest' = <<AlbumsDoc(manifest[s][1])>>
                      ELSE remoteManifest' = remoteManifest]_vars

\* a handleAddAlbum has committed: the store holds the session's manifest, whose
\* last album is the new one, empty
C38_Witness ==
    \E s \in Sessions :
        /\ LastCommitted(s, "addAlbum")
        /\ remoteManifest = <<AlbumsDoc(manifest[s][1])>>
        /\ LET m == manifest[s][1]
           IN  Len(m) > 1 /\ m[Len(m)] = [name |-> <<"e">>, images |-> <<>>]

\* C39: the current page of the gallery is set back to 1 only when the selected
\* album changes: after Next on page p < totalPages the page is p+1 and stays so
\* through the renders that follow, and the page is always within 1..totalPages
C39_PageKeptUntilAlbumChanges ==
    /\ [](totalPages(gallery) > 0 /\ ~gallery.effect
             => gallery.currentPage \in 1..totalPages(gallery))
    /\ [][gallery.effect /\ gallery.why = "next"
             => gallery'.currentPage = gallery.currentPage]_vars

====
